---- MODULE Spec2Model ----
(***************************************************************************)
(* Session-state derivation and per-record crypto engine of                *)
(* scapy_ssl_tls/ssl_tls_crypto.py: TLSSessionCtx, TLSContext, TLSPRF,     *)
(* TLSSecurityParameters, the Stream/CBC/GCM crypto contexts and their     *)
(* containers.                                                             *)
(*                                                                         *)
(* Byte strings are sequences of atoms.  An atom is a run of equal literal *)
(* bytes, [t |-> "r", v |-> byte, n |-> count], or a range of the output   *)
(* of a cryptographic primitive, [t |-> "c", b |-> term, lo |-> i,         *)
(* hi |-> j]: bytes i..j of the value the term denotes.  Primitives are    *)
(* ideal: two outputs are equal exactly when they come from the same       *)
(* primitive applied to the same arguments.  Python integers that are      *)
(* packed with struct.pack("!Q", ..) are sequences of base-256 digits,     *)
(* most significant first, with no leading zero.                           *)
(***************************************************************************)
EXTENDS Integers, Sequences, FiniteSets, TLC

(***************************************************************************)
(* Local names.  Bind(v, LAMBDA x : e) is e with x standing for v, as the  *)
(* statement x = v followed by e.                                          *)
(***************************************************************************)
Bind(v, K(_)) ==
    K(v)

(***************************************************************************)
(* Byte strings                                                            *)
(***************************************************************************)
Run(v, n) ==
    IF n <= 0 THEN <<>> ELSE <<[t |-> "r", v |-> v, n |-> n]>>

Blob(term, n) ==
    IF n <= 0 THEN <<>> ELSE <<[t |-> "c", b |-> term, lo |-> 1, hi |-> n]>>

AtomLen(a) ==
    IF a.t = "r" THEN a.n ELSE a.hi - a.lo + 1

RECURSIVE BLen(_)
BLen(s) ==
    IF s = <<>> THEN 0 ELSE AtomLen(Head(s)) + BLen(Tail(s))

\* the first n bytes of atom a (0 < n < AtomLen(a))
AtomTake(a, n) ==
    IF a.t = "r" THEN [a EXCEPT !.n = n] ELSE [a EXCEPT !.hi = a.lo + n - 1]

\* atom a without its first n bytes (0 < n < AtomLen(a))
AtomDrop(a, n) ==
    IF a.t = "r" THEN [a EXCEPT !.n = a.n - n] ELSE [a EXCEPT !.lo = a.lo + n]

Mergeable(a, b) ==
    /\ a.t = b.t
    /\ IF a.t = "r" THEN a.v = b.v ELSE a.b = b.b /\ a.hi + 1 = b.lo

Merge(a, b) ==
    IF a.t = "r" THEN [a EXCEPT !.n = a.n + b.n] ELSE [a EXCEPT !.hi = b.hi]

\* s1 + s2
Cat(s1, s2) ==
    IF s1 = <<>> THEN s2
    ELSE IF s2 = <<>> THEN s1
    ELSE IF Mergeable(s1[Len(s1)], Head(s2))
         THEN SubSeq(s1, 1, Len(s1) - 1) \o <<Merge(s1[Len(s1)], Head(s2))>> \o Tail(s2)
         ELSE s1 \o s2

RECURSIVE Take(_, _)
\* s[:n] for n >= 0
Take(s, n) ==
    IF n <= 0 \/ s = <<>> THEN <<>>
    ELSE IF AtomLen(Head(s)) <= n
         THEN <<Head(s)>> \o Take(Tail(s), n - AtomLen(Head(s)))
         ELSE <<AtomTake(Head(s), n)>>

RECURSIVE Drop(_, _)
\* s[n:] for n >= 0
Drop(s, n) ==
    IF n <= 0 \/ s = <<>> THEN s
    ELSE IF AtomLen(Head(s)) <= n
         THEN Drop(Tail(s), n - AtomLen(Head(s)))
         ELSE <<AtomDrop(Head(s), n)>> \o Tail(s)

\* Python's s[i:j] for i >= 0 and any j (a negative j counts from the end)
Slice(s, i, j) ==
    LET n  == BLen(s)
        jj == IF j < 0 THEN (IF n + j < 0 THEN 0 ELSE n + j) ELSE (IF j > n THEN n ELSE j)
    IN  IF jj <= i THEN <<>> ELSE Take(Drop(s, i), jj - i)

\* Python's s[-k:] for k >= 0 (s[-0:] is all of s)
Last(s, k) ==
    IF k = 0 \/ k >= BLen(s) THEN s ELSE Drop(s, BLen(s) - k)

\* is every byte of s a literal byte
IsLiteral(s) ==
    \A i \in 1..Len(s) : s[i].t = "r"

\* the literal bytes of s as a sequence of numbers
RECURSIVE Bytes(_)
Bytes(s) ==
    IF s = <<>> THEN <<>>
    ELSE [i \in 1..Head(s).n |-> Head(s).v] \o Bytes(Tail(s))

\* the byte string of a sequence of numbers
RECURSIVE Lit(_)
Lit(ns) ==
    IF ns = <<>> THEN <<>> ELSE Cat(Run(Head(ns), 1), Lit(Tail(ns)))

(***************************************************************************)
(* Python integers as base-256 digits, and struct.pack / struct.unpack     *)
(***************************************************************************)
RECURSIVE StripZeros(_)
StripZeros(ds) ==
    IF ds # <<>> /\ Head(ds) = 0 THEN StripZeros(Tail(ds)) ELSE ds

\* Mutation of BigInc: a counter that stands still
BigStill(ds) ==
    StripZeros(ds)

RECURSIVE BigInc(_)
\* n + 1
BigInc(ds) ==
    IF ds = <<>> THEN <<1>>
    ELSE IF ds[Len(ds)] < 255
         THEN [ds EXCEPT ![Len(ds)] = @ + 1]
         ELSE BigInc(SubSeq(ds, 1, Len(ds) - 1)) \o <<0>>

RECURSIVE BigOfNat(_)
BigOfNat(n) ==
    IF n = 0 THEN <<>> ELSE BigOfNat(n \div 256) \o <<n % 256>>

RECURSIVE BigLess(_, _)
BigLess(a, b) ==
    IF Len(a) # Len(b) THEN Len(a) < Len(b)
    ELSE IF a = <<>> THEN FALSE
    ELSE IF Head(a) # Head(b) THEN Head(a) < Head(b)
    ELSE BigLess(Tail(a), Tail(b))

\* struct.pack("!Q", n): 8 bytes big-endian; struct.error when n >= 2^64
PackQ(ds) ==
    IF Len(ds) > 8 THEN [err |-> "struct.error", v |-> <<>>]
    ELSE [err |-> "", v |-> Lit([i \in 1..(8 - Len(ds)) |-> 0] \o ds)]

\* struct.unpack("!Q", s)[0]: struct.error unless s has exactly 8 bytes
UnpackQ(s) ==
    IF BLen(s) # 8 \/ ~IsLiteral(s) THEN [err |-> "struct.error", v |-> <<>>]
    ELSE [err |-> "", v |-> StripZeros(Bytes(s))]

\* struct.pack("!H", n) and struct.pack("!I", n) and struct.pack("!B", n)
PackN(n, width) ==
    LET ds == BigOfNat(n)
    IN  Lit([i \in 1..(width - Len(ds)) |-> 0] \o ds)

(***************************************************************************)
(* Cipher suite registry: TLSSecurityParameters.crypto_params              *)
(***************************************************************************)
None == <<[t |-> "None"]>>

NoneRec == [t |-> "None"]

\* one entry of crypto_params; prf is "None" for an entry without a "prf" key
Suite(name, export, kex_type, kex_name, sig, c_type, c_name, key_len, mode, mode_name, h_type, h_name, prf) ==
    [name |-> name, export |-> export,
     key_exchange |-> [type |-> kex_type, name |-> kex_name, sig |-> sig],
     cipher |-> [type |-> c_type, name |-> c_name, key_len |-> key_len,
                 mode |-> mode, mode_name |-> mode_name],
     hash |-> [type |-> h_type, name |-> h_name],
     prf |-> prf]

crypto_params ==
    (0 :> Suite("NULL_WITH_NULL_NULL", FALSE, "RSA", "RSA", "None", "NullCipher", "Null", 0, "None", "CBC", "NullHash", "Null", "None")) @@
    (1 :> Suite("RSA_WITH_NULL_MD5", FALSE, "RSA", "RSA", "None", "NullCipher", "Null", 0, "None", "CBC", "MD5", "MD5", "None")) @@
    (2 :> Suite("RSA_WITH_NULL_SHA", FALSE, "RSA", "RSA", "None", "NullCipher", "Null", 0, "None", "CBC", "SHA", "SHA", "None")) @@
    (3 :> Suite("RSA_EXPORT_WITH_RC4_40_MD5", TRUE, "RSA", "RSA", "None", "ARC4", "RC4", 5, "None", "STREAM", "MD5", "MD5", "None")) @@
    (4 :> Suite("RSA_WITH_RC4_128_MD5", FALSE, "RSA", "RSA", "None", "ARC4", "RC4", 16, "None", "STREAM", "MD5", "MD5", "None")) @@
    (5 :> Suite("RSA_WITH_RC4_128_SHA", FALSE, "RSA", "RSA", "None", "ARC4", "RC4", 16, "None", "STREAM", "SHA", "SHA", "None")) @@
    (6 :> Suite("RSA_EXPORT_WITH_RC2_CBC_40_MD5", TRUE, "RSA", "RSA", "None", "ARC2", "RC2", 5, "ARC2.MODE_CBC", "CBC", "MD5", "MD5", "None")) @@
    (8 :> Suite("RSA_EXPORT_WITH_DES40_CBC_SHA", TRUE, "RSA", "RSA", "None", "DES", "DES", 5, "DES.MODE_CBC", "CBC", "SHA", "SHA", "None")) @@
    (9 :> Suite("RSA_WITH_DES_CBC_SHA", FALSE, "RSA", "RSA", "None", "DES", "DES", 8, "DES.MODE_CBC", "CBC", "SHA", "SHA", "None")) @@
    (10 :> Suite("RSA_WITH_3DES_EDE_CBC_SHA", FALSE, "RSA", "RSA", "None", "DES3", "DES3", 24, "DES3.MODE_CBC", "CBC", "SHA", "SHA", "None")) @@
    (47 :> Suite("RSA_WITH_AES_128_CBC_SHA", FALSE, "RSA", "RSA", "None", "AES", "AES", 16, "AES.MODE_CBC", "CBC", "SHA", "SHA", "None")) @@
    (53 :> Suite("RSA_WITH_AES_256_CBC_SHA", FALSE, "RSA", "RSA", "None", "AES", "AES", 32, "AES.MODE_CBC", "CBC", "SHA", "SHA", "None")) @@
    (59 :> Suite("RSA_WITH_NULL_SHA256", FALSE, "RSA", "RSA", "None", "NullCipher", "Null", 0, "None", "CBC", "SHA256", "SHA256", "None")) @@
    (96 :> Suite("RSA_EXPORT1024_WITH_RC4_56_MD5", TRUE, "RSA", "RSA", "None", "ARC4", "RC4", 8, "None", "STREAM", "MD5", "MD5", "None")) @@
    (97 :> Suite("RSA_EXPORT1024_WITH_RC2_CBC_56_MD5", TRUE, "RSA", "RSA", "None", "ARC2", "RC2", 8, "ARC2.MODE_CBC", "CBC", "MD5", "MD5", "None")) @@
    (98 :> Suite("RSA_EXPORT1024_WITH_DES_CBC_SHA", TRUE, "RSA", "RSA", "None", "DES", "DES", 8, "DES.MODE_CBC", "CBC", "SHA", "SHA", "None")) @@
    (100 :> Suite("RSA_EXPORT1024_WITH_RC4_56_SHA", TRUE, "RSA", "RSA", "None", "ARC4", "RC4", 8, "None", "STREAM", "SHA", "SHA", "None")) @@
    (17 :> Suite("DHE_DSS_EXPORT_WITH_DES40_CBC_SHA", TRUE, "DHE", "DHE", "DSA", "DES", "DES", 5, "DES.MODE_CBC", "CBC", "SHA", "SHA", "None")) @@
    (18 :> Suite("DHE_DSS_WITH_DES_CBC_SHA", FALSE, "DHE", "DHE", "DSA", "DES", "DES", 8, "DES.MODE_CBC", "CBC", "SHA", "SHA", "None")) @@
    (19 :> Suite("DHE_DSS_WITH_3DES_EDE_CBC_SHA", FALSE, "DHE", "DHE", "DSA", "DES3", "DES3", 24, "DES3.MODE_CBC", "CBC", "SHA", "SHA", "None")) @@
    (20 :> Suite("DHE_RSA_EXPORT_WITH_DES40_CBC_SHA", TRUE, "DHE", "DHE", "RSA", "DES", "DES", 5, "DES.MODE_CBC", "CBC", "SHA", "SHA", "None")) @@
    (21 :> Suite("DHE_RSA_WITH_DES_CBC_SHA", FALSE, "DHE", "DHE", "RSA", "DES", "DES", 8, "DES.MODE_CBC", "CBC", "SHA", "SHA", "None")) @@
    (22 :> Suite("DHE_RSA_WITH_3DES_EDE_CBC_SHA", FALSE, "DHE", "DHE", "RSA", "DES3", "DES3", 24, "DES3.MODE_CBC", "CBC", "SHA", "SHA", "None")) @@
    (50 :> Suite("DHE_DSS_WITH_AES_128_CBC_SHA", FALSE, "DHE", "DHE", "DSA", "AES", "AES", 16, "AES.MODE_CBC", "CBC", "SHA", "SHA", "None")) @@
    (51 :> Suite("DHE_RSA_WITH_AES_128_CBC_SHA", FALSE, "DHE", "DHE", "RSA", "AES", "AES", 16, "AES.MODE_CBC", "CBC", "SHA", "SHA", "None")) @@
    (56 :> Suite("DHE_DSS_WITH_AES_256_CBC_SHA", FALSE, "DHE", "DHE", "DSA", "AES", "AES", 32, "AES.MODE_CBC", "CBC", "SHA", "SHA", "None")) @@
    (57 :> Suite("DHE_RSA_WITH_AES_256_CBC_SHA", FALSE, "DHE", "DHE", "RSA", "AES", "AES", 32, "AES.MODE_CBC", "CBC", "SHA", "SHA", "None")) @@
    (99 :> Suite("DHE_DSS_EXPORT1024_WITH_DES_CBC_SHA", TRUE, "DHE", "DHE", "DSA", "DES", "DES", 8, "DES.MODE_CBC", "CBC", "SHA", "SHA", "None")) @@
    (101 :> Suite("DHE_DSS_EXPORT1024_WITH_RC4_56_SHA", TRUE, "DHE", "DHE", "DSA", "ARC4", "RC4", 8, "None", "STREAM", "SHA", "SHA", "None")) @@
    (102 :> Suite("DHE_DSS_WITH_RC4_128_SHA", FALSE, "DHE", "DHE", "DSA", "ARC4", "RC4", 16, "None", "STREAM", "SHA", "SHA", "None")) @@
    (49158 :> Suite("ECDHE_ECDSA_WITH_NULL_SHA", FALSE, "ECDHE", "ECDHE", "ECDSA", "NullCipher", "Null", 0, "None", "CBC", "SHA", "SHA", "None")) @@
    (49159 :> Suite("ECDHE_ECDSA_WITH_RC4_128_SHA", FALSE, "ECDHE", "ECDHE", "ECDSA", "ARC4", "RC4", 16, "None", "STREAM", "SHA", "SHA", "None")) @@
    (49160 :> Suite("ECDHE_ECDSA_WITH_3DES_EDE_CBC_SHA", FALSE, "ECDHE", "ECDHE", "ECDSA", "DES3", "DES3", 8, "DES.MODE_CBC", "CBC", "SHA", "SHA", "None")) @@
    (49161 :> Suite("ECDHE_ECDSA_WITH_AES_128_CBC_SHA", FALSE, "ECDHE", "ECDHE", "ECDSA", "AES", "AES", 16, "AES.MODE_CBC", "CBC", "SHA", "SHA", "None")) @@
    (49162 :> Suite("ECDHE_ECDSA_WITH_AES_256_CBC_SHA", FALSE, "ECDHE", "ECDHE", "ECDSA", "AES", "AES", 32, "AES.MODE_CBC", "CBC", "SHA", "SHA", "None")) @@
    (49168 :> Suite("ECDHE_RSA_WITH_NULL_SHA", FALSE, "ECDHE", "ECDHE", "RSA", "NullCipher", "Null", 0, "None", "CBC", "SHA", "SHA", "None")) @@
    (49169 :> Suite("ECDHE_RSA_WITH_RC4_128_SHA", FALSE, "ECDHE", "ECDHE", "RSA", "ARC4", "RC4", 16, "None", "STREAM", "SHA", "SHA", "None")) @@
    (49170 :> Suite("ECDHE_RSA_WITH_3DES_EDE_CBC_SHA", FALSE, "ECDHE", "ECDHE", "RSA", "DES3", "DES3", 8, "DES.MODE_CBC", "CBC", "SHA", "SHA", "None")) @@
    (49171 :> Suite("ECDHE_RSA_WITH_AES_128_CBC_SHA", FALSE, "ECDHE", "ECDHE", "RSA", "AES", "AES", 16, "AES.MODE_CBC", "CBC", "SHA", "SHA", "None")) @@
    (49172 :> Suite("ECDHE_RSA_WITH_AES_256_CBC_SHA", FALSE, "ECDHE", "ECDHE", "RSA", "AES", "AES", 32, "AES.MODE_CBC", "CBC", "SHA", "SHA", "None")) @@
    (49187 :> Suite("ECDHE_ECDSA_WITH_AES_128_CBC_SHA256", FALSE, "ECDHE", "ECDHE", "ECDSA", "AES", "AES", 16, "AES.MODE_CBC", "CBC", "SHA256", "SHA256", "None")) @@
    (49188 :> Suite("ECDHE_ECDSA_WITH_AES_256_CBC_SHA384", FALSE, "ECDHE", "ECDHE", "ECDSA", "AES", "AES", 32, "AES.MODE_CBC", "CBC", "SHA384", "SHA384", "None")) @@
    (49191 :> Suite("ECDHE_RSA_WITH_AES_128_CBC_SHA256", FALSE, "ECDHE", "ECDHE", "RSA", "AES", "AES", 16, "AES.MODE_CBC", "CBC", "SHA256", "SHA256", "None")) @@
    (49192 :> Suite("ECDHE_RSA_WITH_AES_256_CBC_SHA384", FALSE, "ECDHE", "ECDHE", "RSA", "AES", "AES", 16, "AES.MODE_CBC", "CBC", "SHA384", "SHA384", "None")) @@
    (49195 :> Suite("ECDHE_ECDSA_WITH_AES_128_GCM_SHA256", FALSE, "ECDHE", "ECDHE", "ECDSA", "AES", "AES", 16, "AES.MODE_GCM", "GCM", "NullHash", "NULL", "SHA256")) @@
    (49196 :> Suite("ECDHE_ECDSA_WITH_AES_256_GCM_SHA384", FALSE, "ECDHE", "ECDHE", "ECDSA", "AES", "AES", 32, "AES.MODE_GCM", "GCM", "NullHash", "NULL", "SHA384")) @@
    (49200 :> Suite("ECDHE_RSA_WITH_AES_256_GCM_SHA384", FALSE, "ECDHE", "ECDHE", "RSA", "AES", "AES", 32, "AES.MODE_GCM", "GCM", "NullHash", "NULL", "SHA384"))

(***************************************************************************)
(* Properties of the cipher and hash types the registry refers to          *)
(***************************************************************************)
\* cipher type .block_size
block_size(type) ==
    CASE type = "AES" -> 16
      [] type = "DES" -> 8
      [] type = "DES3" -> 8
      [] type = "ARC2" -> 8
      [] type = "ARC4" -> 1
      [] type = "NullCipher" -> 0

\* hash type .digest_size
digest_size(type) ==
    CASE type = "MD5" -> 16
      [] type = "SHA" -> 20
      [] type = "SHA256" -> 32
      [] type = "SHA384" -> 48
      [] type = "NullHash" -> 0

\* the key lengths cipher_type.new accepts
key_size(type) ==
    CASE type = "AES" -> {16, 24, 32}
      [] type = "DES" -> {8}
      [] type = "DES3" -> {16, 24}
      [] type = "ARC2" -> 1..128
      [] type = "ARC4" -> 1..256
      [] type = "NullCipher" -> Nat

(***************************************************************************)
(* TLSPRF                                                                  *)
(***************************************************************************)
TLS_1_0 == 769

TLS_1_1 == TLS_1_0 + 1

TLS_1_2 == 771

\* tls.TLS_VERSIONS.keys()
TLS_VERSIONS == {2, 768, TLS_1_0, TLS_1_1, TLS_1_2}

\* Mutation of TLSPRF: a constructor that takes a digest for every version
TLSPRF_any_digest(tls_version, digest) ==
    IF tls_version \notin TLS_VERSIONS THEN [err |-> "ValueError", v |-> NoneRec]
    ELSE [err |-> "",
          v |-> [t |-> "TLSPRF", tls_version |-> tls_version,
                 digest |-> IF digest = "None" THEN "SHA256" ELSE digest]]

\* TLSPRF.__init__
TLSPRF(tls_version, digest) ==
    IF tls_version \notin TLS_VERSIONS THEN [err |-> "ValueError", v |-> NoneRec]
    ELSE IF tls_version < TLS_1_2 /\ digest # "None" THEN [err |-> "ValueError", v |-> NoneRec]
    ELSE [err |-> "",
          v |-> [t |-> "TLSPRF", tls_version |-> tls_version,
                 digest |-> IF digest = "None" THEN "SHA256" ELSE digest]]

\* TLSPRF._get_bytes: the P_hash expansion of (key, label + random), cut to num_bytes
prf_get_bytes_digest(digest, key, label, random, num_bytes) ==
    Blob([k |-> "p_hash", digest |-> digest, key |-> key, label |-> label, seed |-> random],
         num_bytes)

\* TLSPRF.get_bytes
get_bytes(prf, key, label, random, num_bytes) ==
    IF prf = NoneRec THEN [err |-> "AttributeError", v |-> <<>>]
    ELSE IF key = None THEN [err |-> "TypeError", v |-> <<>>]
    ELSE IF prf.tls_version >= TLS_1_2
         THEN [err |-> "", v |-> prf_get_bytes_digest(prf.digest, key, label, random, num_bytes)]
         ELSE LET key_len   == (BLen(key) + 1) \div 2
                  key_left  == Take(key, key_len)
                  key_right == Last(key, key_len)
                  md5_bytes  == prf_get_bytes_digest("MD5", key_left, label, random, num_bytes)
                  sha1_bytes == prf_get_bytes_digest("SHA", key_right, label, random, num_bytes)
              IN  [err |-> "",
                   v |-> Blob([k |-> "xor", a |-> md5_bytes, b |-> sha1_bytes], num_bytes)]

(***************************************************************************)
(* Keyed primitives: Crypto.Hash.HMAC and the Crypto.Cipher types          *)
(***************************************************************************)
\* HMAC.new(key, msg, digestmod).digest()
HMAC(key, msg, digestmod) ==
    Blob([k |-> "hmac", digest |-> digestmod, key |-> key, msg |-> msg], digest_size(digestmod))

\* cipher_type.new(key, mode=mode, IV=iv): a cipher object, ValueError on a key or
\* IV of the wrong length.  iv is the chaining value of a CBC cipher and the nonce
\* of a GCM cipher; pos counts the bytes a stream cipher has processed.
cipher_new(type, key, mode, iv) ==
    IF BLen(key) \notin key_size(type) THEN [err |-> "ValueError", v |-> NoneRec]
    ELSE IF type = "NullCipher" THEN [err |-> "", v |-> [type |-> type, mode |-> "None", key |-> <<>>, iv |-> <<>>, pos |-> 0]]
    ELSE IF mode \in {"AES.MODE_CBC", "DES.MODE_CBC", "DES3.MODE_CBC", "ARC2.MODE_CBC"}
              /\ BLen(iv) # block_size(type)
         THEN [err |-> "ValueError", v |-> NoneRec]
    ELSE IF mode = "AES.MODE_GCM" /\ BLen(iv) = 0 THEN [err |-> "ValueError", v |-> NoneRec]
    ELSE [err |-> "",
          v |-> [type |-> type, mode |-> IF mode = "None" THEN "None" ELSE IF mode = "AES.MODE_GCM" THEN "GCM" ELSE "CBC",
                 key |-> key, iv |-> iv, pos |-> 0]]

\* s is all of the output of one application of primitive kind
IsWhole(s, kind) ==
    /\ Len(s) = 1
    /\ s[1].t = "c"
    /\ s[1].b.k = kind
    /\ s[1].lo = 1
    /\ s[1].hi = BLen(s[1].b.pt)

\* Mutation of cipher_encrypt: a cipher object that starts every call from the
\* state it was built with
cipher_encrypt_unchained(c, data) ==
    IF c.type = "NullCipher" THEN [err |-> "", v |-> data, c |-> c]
    ELSE IF c.mode = "None"
         THEN [err |-> "",
               v |-> Blob([k |-> "stream", type |-> c.type, key |-> c.key, pos |-> c.pos, pt |-> data], BLen(data)),
               c |-> c]
    ELSE IF BLen(data) % block_size(c.type) # 0 THEN [err |-> "ValueError", v |-> <<>>, c |-> c]
    ELSE [err |-> "",
          v |-> Blob([k |-> "cbc", type |-> c.type, key |-> c.key, iv |-> c.iv, pt |-> data], BLen(data)),
          c |-> c]

\* cipher.encrypt(data) of a stream, CBC or null cipher object: the output and the
\* cipher object afterwards
cipher_encrypt(c, data) ==
    IF c.type = "NullCipher" THEN [err |-> "", v |-> data, c |-> c]
    ELSE IF c.mode = "None"
         THEN [err |-> "",
               v |-> Blob([k |-> "stream", type |-> c.type, key |-> c.key, pos |-> c.pos, pt |-> data], BLen(data)),
               c |-> [c EXCEPT !.pos = @ + BLen(data)]]
    ELSE IF BLen(data) % block_size(c.type) # 0 THEN [err |-> "ValueError", v |-> <<>>, c |-> c]
    ELSE LET out == Blob([k |-> "cbc", type |-> c.type, key |-> c.key, iv |-> c.iv, pt |-> data], BLen(data))
         IN  [err |-> "", v |-> out,
              c |-> IF out = <<>> THEN c ELSE [c EXCEPT !.iv = Last(out, block_size(c.type))]]

\* Mutation of cipher_decrypt: a cipher object that encrypts again
cipher_decrypt_as_encrypt(c, data) ==
    cipher_encrypt(c, data)

\* cipher.decrypt(data) of a stream, CBC or null cipher object
cipher_decrypt(c, data) ==
    IF c.type = "NullCipher" THEN [err |-> "", v |-> data, c |-> c]
    ELSE IF c.mode = "None"
         THEN [err |-> "",
               v |-> IF IsWhole(data, "stream") /\ data[1].b.type = c.type
                        /\ data[1].b.key = c.key /\ data[1].b.pos = c.pos
                     THEN data[1].b.pt
                     ELSE Blob([k |-> "stream_dec", type |-> c.type, key |-> c.key, pos |-> c.pos, ct |-> data],
                               BLen(data)),
               c |-> [c EXCEPT !.pos = @ + BLen(data)]]
    ELSE IF BLen(data) % block_size(c.type) # 0 THEN [err |-> "ValueError", v |-> <<>>, c |-> c]
    ELSE LET B == block_size(c.type)
             garbage(s) == Blob([k |-> "cbc_dec", type |-> c.type, key |-> c.key, iv |-> c.iv, ct |-> s], BLen(s))
         IN  [err |-> "",
              v |-> IF IsWhole(data, "cbc") /\ data[1].b.type = c.type /\ data[1].b.key = c.key
                    THEN IF data[1].b.iv = c.iv THEN data[1].b.pt
                         ELSE Cat(garbage(Take(data, B)), Drop(data[1].b.pt, B))
                    ELSE garbage(data),
              c |-> IF data = <<>> THEN c ELSE [c EXCEPT !.iv = Last(data, B)]]

\* enc_cipher.update(aad); enc_cipher.encrypt_and_digest(data) of a GCM cipher object
gcm_encrypt_and_digest(c, aad, data) ==
    LET ct == Blob([k |-> "gcm", key |-> c.key, nonce |-> c.iv, pt |-> data], BLen(data))
    IN  [ciphertext |-> ct,
         mac |-> Blob([k |-> "gcm_tag", key |-> c.key, nonce |-> c.iv, aad |-> aad, ct |-> ct], 16)]

\* dec_cipher.update(aad); dec_cipher.decrypt(data); dec_cipher.verify(tag): the
\* cleartext and whether verify accepts the tag
gcm_decrypt_and_verify(c, aad, data, tag) ==
    [cleartext |-> IF IsWhole(data, "gcm") /\ data[1].b.key = c.key /\ data[1].b.nonce = c.iv
                   THEN data[1].b.pt
                   ELSE Blob([k |-> "gcm_dec", key |-> c.key, nonce |-> c.iv, ct |-> data], BLen(data)),
     verified |-> tag = Blob([k |-> "gcm_tag", key |-> c.key, nonce |-> c.iv, aad |-> aad, ct |-> data], 16)]

\* PKCS7Encoder().get_padding(text): k - len(text) % k bytes, each of that value
PKCS7_K == 16

pkcs7_get_padding(text) ==
    LET amount_to_pad == PKCS7_K - (BLen(text) % PKCS7_K)
    IN  Run(amount_to_pad, amount_to_pad)

(***************************************************************************)
(* TLSSecurityParameters                                                   *)
(***************************************************************************)
EmptySymKeyStore == [t |-> "EmptySymKeyStore", key |-> <<>>, hmac |-> <<>>, iv |-> <<>>]

CipherKeyStore(key, hmac, iv) ==
    [t |-> "CipherKeyStore", key |-> key, hmac |-> hmac, iv |-> iv]

\* Mutation of set_sec_param_sizes: the IV of every mode is one cipher block
set_sec_param_sizes_block_iv(cipher_mode_name, param, block_size_) ==
    IF cipher_mode_name \in {"GCM", "CBC", "STREAM"}
    THEN [err |-> "",
          mac_key_length |-> IF cipher_mode_name = "GCM" THEN 0 ELSE digest_size(param.hash.type),
          iv_length |-> block_size_, cipher_key_length |-> param.cipher.key_len]
    ELSE [err |-> "ValueError", mac_key_length |-> 0, iv_length |-> 0, cipher_key_length |-> 0]

\* TLSSecurityParameters.__set_sec_param_sizes
set_sec_param_sizes(cipher_mode_name, param, block_size_) ==
    LET key_len == param.cipher.key_len
    IN  IF cipher_mode_name = "GCM"
        THEN [err |-> "", mac_key_length |-> 0, iv_length |-> 4, cipher_key_length |-> key_len]
        ELSE IF cipher_mode_name = "CBC"
        THEN [err |-> "", mac_key_length |-> digest_size(param.hash.type), iv_length |-> block_size_,
              cipher_key_length |-> key_len]
        ELSE IF cipher_mode_name = "STREAM"
        THEN [err |-> "", mac_key_length |-> digest_size(param.hash.type), iv_length |-> 0,
              cipher_key_length |-> key_len]
        ELSE [err |-> "ValueError", mac_key_length |-> 0, iv_length |-> 0, cipher_key_length |-> 0]

\* TLSSecurityParameters.__init__
sec_params_init(prf, cipher_suite, client_random, server_random) ==
    IF cipher_suite \notin DOMAIN crypto_params THEN [err |-> "RuntimeError", v |-> NoneRec]
    ELSE IF client_random = None THEN [err |-> "TypeError", v |-> NoneRec]
    ELSE IF BLen(client_random) # 32 THEN [err |-> "ValueError", v |-> NoneRec]
    ELSE IF server_random = None THEN [err |-> "TypeError", v |-> NoneRec]
    ELSE IF BLen(server_random) # 32 THEN [err |-> "ValueError", v |-> NoneRec]
    ELSE Bind(crypto_params[cipher_suite], LAMBDA param :
         Bind(set_sec_param_sizes(param.cipher.mode_name, param, block_size(param.cipher.type)), LAMBDA sizes :
             IF sizes.err # "" THEN [err |-> sizes.err, v |-> NoneRec]
             ELSE [err |-> "",
                   v |-> [t |-> "TLSSecurityParameters",
                          cipher_suite |-> cipher_suite,
                          client_random |-> client_random,
                          server_random |-> server_random,
                          block_size |-> block_size(param.cipher.type),
                          cipher_mode |-> param.cipher.mode,
                          cipher_mode_name |-> param.cipher.mode_name,
                          cipher_type |-> param.cipher.type,
                          hash_type |-> param.hash.type,
                          prf |-> prf,
                          pms |-> <<>>,
                          master_secret |-> <<>>,
                          client_keystore |-> EmptySymKeyStore,
                          server_keystore |-> EmptySymKeyStore,
                          mac_key_length |-> sizes.mac_key_length,
                          iv_length |-> sizes.iv_length,
                          cipher_key_length |-> sizes.cipher_key_length]]))

\* Mutation of init_key_material: the MAC keys are cut after the cipher keys
init_key_material_keys_first(sp, data) ==
    LET i1 == sp.cipher_key_length
        i2 == i1 + sp.cipher_key_length
        i3 == i2 + sp.mac_key_length
        i4 == i3 + sp.mac_key_length
        i5 == i4 + sp.iv_length
        i6 == i5 + sp.iv_length
    IN  [client_keystore |-> CipherKeyStore(Slice(data, 0, i1), Slice(data, i2, i3), Slice(data, i4, i5)),
         server_keystore |-> CipherKeyStore(Slice(data, i1, i2), Slice(data, i3, i4), Slice(data, i5, i6))]

\* TLSSecurityParameters.__init_key_material
init_key_material(sp, data) ==
    LET i1 == sp.mac_key_length
        i2 == i1 + sp.mac_key_length
        i3 == i2 + sp.cipher_key_length
        i4 == i3 + sp.cipher_key_length
        i5 == i4 + sp.iv_length
        i6 == i5 + sp.iv_length
        client_mac_key == Slice(data, 0, i1)
        server_mac_key == Slice(data, i1, i2)
        client_key     == Slice(data, i2, i3)
        server_key     == Slice(data, i3, i4)
        client_iv      == Slice(data, i4, i5)
        server_iv      == Slice(data, i5, i6)
    IN  [client_keystore |-> CipherKeyStore(client_key, client_mac_key, client_iv),
         server_keystore |-> CipherKeyStore(server_key, server_mac_key, server_iv)]

\* TLSSecurityParameters.generate_master_secret
generate_master_secret(sp, pms, client_random, server_random) ==
    get_bytes(sp.prf, pms, "master secret", Cat(client_random, server_random), 48)

\* TLSSecurityParameters.init_keys (with master_secret=None: the object's own)
init_keys(sp, client_random, server_random) ==
    Bind(get_bytes(sp.prf, sp.master_secret, "key expansion",
                               Cat(server_random, client_random),
                               2 * (sp.mac_key_length + sp.cipher_key_length + sp.iv_length)), LAMBDA key_block :
        IF key_block.err # "" THEN [err |-> key_block.err, v |-> NoneRec]
        ELSE [err |-> "", v |-> init_key_material(sp, key_block.v)])

\* TLSSecurityParameters.from_pre_master_secret
from_pre_master_secret(prf, cipher_suite, pms, client_random, server_random) ==
    Bind(sec_params_init(prf, cipher_suite, client_random, server_random), LAMBDA new :
        IF new.err # "" THEN new
        ELSE Bind(generate_master_secret(new.v, pms, client_random, server_random), LAMBDA ms :
                 IF ms.err # "" THEN [err |-> ms.err, v |-> NoneRec]
                 ELSE Bind([new.v EXCEPT !.pms = pms, !.master_secret = ms.v], LAMBDA sp :
                      Bind(init_keys(sp, client_random, server_random), LAMBDA keys :
                          IF keys.err # "" THEN [err |-> keys.err, v |-> NoneRec]
                          ELSE [err |-> "",
                                v |-> [sp EXCEPT !.client_keystore = keys.v.client_keystore,
                                                 !.server_keystore = keys.v.server_keystore]]))))

\* Mutation of from_master_secret: the given secret taken as a premaster secret
from_master_secret_rederived(prf, cipher_suite, master_secret, client_random, server_random) ==
    from_pre_master_secret(prf, cipher_suite, master_secret, client_random, server_random)

\* TLSSecurityParameters.from_master_secret
from_master_secret(prf, cipher_suite, master_secret, client_random, server_random) ==
    Bind(sec_params_init(prf, cipher_suite, client_random, server_random), LAMBDA new :
        IF new.err # "" THEN new
        ELSE Bind([new.v EXCEPT !.master_secret = master_secret], LAMBDA sp :
             Bind(init_keys(sp, client_random, server_random), LAMBDA keys :
                 IF keys.err # "" THEN [err |-> keys.err, v |-> NoneRec]
                 ELSE [err |-> "",
                       v |-> [sp EXCEPT !.client_keystore = keys.v.client_keystore,
                                        !.server_keystore = keys.v.server_keystore]])))

(***************************************************************************)
(* CryptoData and the crypto containers                                    *)
(***************************************************************************)
APPLICATION_DATA == 23

\* CryptoData.__init__ (data_len=None)
CryptoData(data, sequence, version, content_type) ==
    [data |-> data, sequence |-> sequence, version |-> version, content_type |-> content_type,
     data_len |-> BLen(data)]

\* the 13 bytes sequence_ + content_type_ + version_ + len_ that __mac and __aead pack
\* Mutation of record_header: a header that carries the sequence number the
\* record leaves behind
record_header_next_sequence(crypto_data) ==
    LET sequence_ == PackQ(BigInc(crypto_data.sequence))
    IN  IF sequence_.err # "" THEN sequence_
        ELSE [err |-> "",
              v |-> Cat(Cat(Cat(sequence_.v, PackN(crypto_data.content_type, 1)),
                            PackN(crypto_data.version, 2)),
                        PackN(crypto_data.data_len, 2))]

record_header(crypto_data) ==
    LET sequence_ == PackQ(crypto_data.sequence)
    IN  IF sequence_.err # "" THEN sequence_
        ELSE [err |-> "",
              v |-> Cat(Cat(Cat(sequence_.v, PackN(crypto_data.content_type, 1)),
                            PackN(crypto_data.version, 2)),
                        PackN(crypto_data.data_len, 2))]

\* StreamCryptoContainer.__mac and CBCCryptoContainer.__mac
container_mac(crypto_data, hmac_key, hash_type) ==
    Bind(record_header(crypto_data), LAMBDA hdr :
        IF hdr.err # "" THEN hdr
        ELSE [err |-> "", v |-> HMAC(hmac_key, Cat(hdr.v, crypto_data.data), hash_type)])

\* str(StreamCryptoContainer.from_context(tls_ctx, ctx, crypto_data))
StreamCryptoContainer(crypto_data, hmac_key, hash_type) ==
    Bind(container_mac(crypto_data, hmac_key, hash_type), LAMBDA mac :
        IF mac.err # "" THEN mac
        ELSE [err |-> "", v |-> Cat(crypto_data.data, mac.v)])

\* CBCCryptoContainer.__pad
cbc_pad(data, mac) ==
    pkcs7_get_padding(Cat(Cat(data, mac), Run(255, 1)))

\* str(CBCCryptoContainer(crypto_data, digest, explicit_iv))
CBCCryptoContainer(crypto_data, hmac_key, hash_type, explicit_iv) ==
    Bind(container_mac(crypto_data, hmac_key, hash_type), LAMBDA mac :
        IF mac.err # "" THEN mac
        ELSE Bind(cbc_pad(crypto_data.data, mac.v), LAMBDA padding :
             Bind(Run(BLen(padding), 1), LAMBDA padding_len :
                 [err |-> "",
                  v |-> Cat(Cat(Cat(Cat(explicit_iv, crypto_data.data), mac.v), padding), padding_len)])))

\* GCMCryptoContainer.__aead
gcm_aead(crypto_data) ==
    record_header(crypto_data)

(***************************************************************************)
(* Crypto contexts.  An engine keeps the fields of the security parameters *)
(* it captured when it was built (cipher_type, cipher_mode, block_size);   *)
(* the key store, requires_iv, the negotiated version and the session's    *)
(* current security parameters are read from the session at each call.    *)
(* A cipher attribute that was never assigned is NoneRec.                  *)
(***************************************************************************)
GCM_TAG_SIZE == 16

GCM_EXPLICIT_IV_SIZE == 8

\* StreamCryptoContext.__init__
StreamCryptoContext(sec_params, sym_keystore) ==
    LET c == cipher_new(sec_params.cipher_type, sym_keystore.key, "None", <<>>)
    IN  IF c.err # "" THEN [err |-> c.err, v |-> NoneRec, sym_keystore |-> sym_keystore]
        ELSE [err |-> "",
              v |-> [t |-> "StreamCryptoContext", mode |-> "STREAM",
                     cipher_type |-> sec_params.cipher_type, cipher_mode |-> sec_params.cipher_mode,
                     block_size |-> sec_params.block_size,
                     enc_cipher |-> c.v, dec_cipher |-> c.v],
              sym_keystore |-> sym_keystore]

\* Mutation of cbc_init_ciphers: cipher objects that are built once and then kept
cbc_init_ciphers_once(eng, sym_keystore) ==
    LET c == cipher_new(eng.cipher_type, sym_keystore.key, eng.cipher_mode, sym_keystore.iv)
    IN  IF eng.enc_cipher # NoneRec THEN [err |-> "", v |-> eng]
        ELSE IF c.err # "" THEN [err |-> c.err, v |-> eng]
        ELSE [err |-> "", v |-> [eng EXCEPT !.enc_cipher = c.v, !.dec_cipher = c.v]]

\* CBCCryptoContext.__init_ciphers
cbc_init_ciphers(eng, sym_keystore) ==
    LET c == cipher_new(eng.cipher_type, sym_keystore.key, eng.cipher_mode, sym_keystore.iv)
    IN  IF c.err # "" THEN [err |-> c.err, v |-> eng]
        ELSE [err |-> "", v |-> [eng EXCEPT !.enc_cipher = c.v, !.dec_cipher = c.v]]

\* CBCCryptoContext.__init__
CBCCryptoContext(sec_params, sym_keystore, requires_iv) ==
    LET eng == [t |-> "CBCCryptoContext", mode |-> "CBC",
                cipher_type |-> sec_params.cipher_type, cipher_mode |-> sec_params.cipher_mode,
                block_size |-> sec_params.block_size,
                enc_cipher |-> NoneRec, dec_cipher |-> NoneRec]
    IN  IF requires_iv
        THEN [err |-> "", v |-> eng,
              sym_keystore |-> [sym_keystore EXCEPT !.iv = Run(0, sec_params.block_size)]]
        ELSE LET r == cbc_init_ciphers(eng, sym_keystore)
             IN  [err |-> r.err, v |-> IF r.err # "" THEN NoneRec ELSE r.v, sym_keystore |-> sym_keystore]

\* GCMCryptoContext.__init__
GCMCryptoContext(sec_params, sym_keystore) ==
    [err |-> "",
     v |-> [t |-> "GCMCryptoContext", mode |-> "GCM",
            cipher_type |-> sec_params.cipher_type, cipher_mode |-> sec_params.cipher_mode,
            block_size |-> sec_params.block_size,
            enc_cipher |-> NoneRec, dec_cipher |-> NoneRec],
     sym_keystore |-> sym_keystore]

\* CryptoContextFactory(tls_ctx).new(ctx): the engine and ctx.sym_keystore afterwards
CryptoContextFactory_new(sec_params, sym_keystore, requires_iv) ==
    IF sec_params = NoneRec THEN [err |-> "AttributeError", v |-> NoneRec, sym_keystore |-> sym_keystore]
    ELSE IF sec_params.cipher_mode_name = "STREAM" THEN StreamCryptoContext(sec_params, sym_keystore)
    ELSE IF sec_params.cipher_mode_name = "CBC" THEN CBCCryptoContext(sec_params, sym_keystore, requires_iv)
    ELSE IF sec_params.cipher_mode_name = "GCM" THEN GCMCryptoContext(sec_params, sym_keystore)
    ELSE [err |-> "ValueError", v |-> NoneRec, sym_keystore |-> sym_keystore]

\* os.urandom(n): n fresh bytes, r names the draw
urandom(n, r) ==
    Blob([k |-> "urandom", id |-> r], n)

\* the keyword arguments every engine method reads from the session:
\* tls_ctx.negotiated.version, tls_ctx.requires_iv, tls_ctx.sec_params
TlsView(version, requires_iv, sec_params) ==
    [version |-> version, requires_iv |-> requires_iv, sec_params |-> sec_params]

\* StreamCryptoContext.encrypt_data / encrypt on ctx.crypto_ctx: the bytes returned
\* and ctx afterwards
stream_encrypt_data(ctx, tls, data) ==
    Bind(ctx.crypto_ctx, LAMBDA eng :
    Bind(StreamCryptoContainer(
            CryptoData(data, ctx.sequence, tls.version, APPLICATION_DATA),
            ctx.sym_keystore.hmac, tls.sec_params.hash_type), LAMBDA crypto_container :
        IF crypto_container.err # "" THEN [err |-> crypto_container.err, v |-> <<>>, ctx |-> ctx]
        ELSE Bind(cipher_encrypt(eng.enc_cipher, crypto_container.v), LAMBDA r :
                 [err |-> "", v |-> r.v,
                  ctx |-> [ctx EXCEPT !.crypto_ctx.enc_cipher = r.c, !.sequence = BigInc(@)]])))

\* StreamCryptoContext.decrypt
stream_decrypt(ctx, tls, ciphertext) ==
    LET r == cipher_decrypt(ctx.crypto_ctx.dec_cipher, ciphertext)
    IN  [err |-> "", warn |-> "", v |-> r.v,
         ctx |-> [ctx EXCEPT !.crypto_ctx.dec_cipher = r.c, !.sequence = BigInc(@)]]

\* CBCCryptoContext.encrypt_data / encrypt; r names the explicit IV drawn
cbc_encrypt_data(ctx, tls, data, r) ==
    Bind(IF tls.requires_iv THEN urandom(tls.sec_params.block_size, r) ELSE <<>>, LAMBDA explicit_iv :
    Bind(CBCCryptoContainer(
            CryptoData(data, ctx.sequence, tls.version, APPLICATION_DATA),
            ctx.sym_keystore.hmac, tls.sec_params.hash_type, explicit_iv), LAMBDA crypto_container :
    Bind(IF tls.requires_iv THEN cbc_init_ciphers(ctx.crypto_ctx, ctx.sym_keystore)
                ELSE [err |-> "", v |-> ctx.crypto_ctx], LAMBDA init :
        IF crypto_container.err # "" THEN [err |-> crypto_container.err, v |-> <<>>, ctx |-> ctx]
        ELSE IF init.err # "" THEN [err |-> init.err, v |-> <<>>, ctx |-> ctx]
        ELSE IF init.v.enc_cipher = NoneRec
             THEN [err |-> "AttributeError", v |-> <<>>, ctx |-> [ctx EXCEPT !.crypto_ctx = init.v]]
        ELSE Bind(cipher_encrypt(init.v.enc_cipher, crypto_container.v), LAMBDA e :
                 IF e.err # ""
                 THEN [err |-> e.err, v |-> <<>>, ctx |-> [ctx EXCEPT !.crypto_ctx = init.v]]
                 ELSE [err |-> "", v |-> e.v,
                       ctx |-> [ctx EXCEPT !.crypto_ctx = [init.v EXCEPT !.enc_cipher = e.c],
                                           !.sequence = BigInc(@)]]))))

\* CBCCryptoContext.decrypt
cbc_decrypt(ctx, tls, ciphertext) ==
    Bind(IF tls.requires_iv THEN cbc_init_ciphers(ctx.crypto_ctx, ctx.sym_keystore)
                ELSE [err |-> "", v |-> ctx.crypto_ctx], LAMBDA init :
        IF init.err # "" THEN [err |-> init.err, warn |-> "", v |-> <<>>, ctx |-> ctx]
        ELSE IF init.v.dec_cipher = NoneRec
             THEN [err |-> "AttributeError", warn |-> "", v |-> <<>>,
                   ctx |-> [ctx EXCEPT !.crypto_ctx = init.v]]
        ELSE Bind(cipher_decrypt(init.v.dec_cipher, ciphertext), LAMBDA d :
                 IF d.err # ""
                 THEN [err |-> d.err, warn |-> "", v |-> <<>>, ctx |-> [ctx EXCEPT !.crypto_ctx = init.v]]
                 ELSE [err |-> "", warn |-> "", v |-> d.v,
                       ctx |-> [ctx EXCEPT !.crypto_ctx = [init.v EXCEPT !.dec_cipher = d.c],
                                           !.sequence = BigInc(@)]]))

\* Mutation of gcm_get_nonce: a nonce made of the explicit part alone
gcm_get_nonce_without_salt(ctx, explicit) ==
    explicit

\* GCMCryptoContext.get_nonce(nonce) for a given explicit part
gcm_get_nonce(ctx, explicit) ==
    Cat(ctx.sym_keystore.iv, explicit)

\* GCMCryptoContext.__init_ciphers
gcm_init_ciphers(eng, sym_keystore, nonce) ==
    LET c == cipher_new(eng.cipher_type, sym_keystore.key, eng.cipher_mode, nonce)
    IN  IF c.err # "" THEN [err |-> c.err, v |-> eng]
        ELSE [err |-> "", v |-> [eng EXCEPT !.enc_cipher = c.v, !.dec_cipher = c.v]]

\* GCMCryptoContext.encrypt_data / encrypt
gcm_encrypt_data(ctx, tls, data) ==
    Bind(gcm_aead(CryptoData(data, ctx.sequence, tls.version, APPLICATION_DATA)), LAMBDA aead :
    Bind(PackQ(ctx.nonce), LAMBDA packed :
        IF aead.err # "" THEN [err |-> aead.err, v |-> <<>>, ctx |-> ctx]
        ELSE IF packed.err # "" THEN [err |-> packed.err, v |-> <<>>, ctx |-> ctx]
        ELSE Bind(gcm_init_ciphers(ctx.crypto_ctx, ctx.sym_keystore, gcm_get_nonce(ctx, packed.v)), LAMBDA init :
                 IF init.err # "" THEN [err |-> init.err, v |-> <<>>, ctx |-> ctx]
                 ELSE Bind(gcm_encrypt_and_digest(init.v.enc_cipher, aead.v, data), LAMBDA e :
                      Bind(Cat(Cat(packed.v, e.ciphertext), e.mac), LAMBDA bytes_ :
                          [err |-> "", v |-> bytes_,
                           ctx |-> [ctx EXCEPT !.crypto_ctx = init.v,
                                               !.nonce = BigInc(@),
                                               !.sequence = BigInc(@)]])))))

\* what GCMCryptoContext.decrypt does when dec_cipher.verify(tag) raises ValueError
gcm_verify_failed ==
    [err |-> "", warn |-> "Verification of GCM tag failed"]

\* Mutation of gcm_decrypt: a decrypt that counts the records it takes instead of
\* reading the counter from them
gcm_decrypt_counting(ctx, tls, ciphertext, content_type) ==
    [err |-> "", warn |-> "", v |-> ciphertext,
     ctx |-> [ctx EXCEPT !.nonce = BigInc(@), !.sequence = BigInc(@)]]

\* GCMCryptoContext.decrypt
gcm_decrypt(ctx, tls, ciphertext, content_type) ==
    Bind(Take(ciphertext, GCM_EXPLICIT_IV_SIZE), LAMBDA explicit_nonce :
    Bind(Slice(ciphertext, GCM_EXPLICIT_IV_SIZE, 0 - GCM_TAG_SIZE), LAMBDA ct :
    Bind(Last(ciphertext, GCM_TAG_SIZE), LAMBDA tag :
    Bind(gcm_aead(CryptoData(Run(0, BLen(ct)), ctx.sequence, tls.version, content_type)), LAMBDA aead :
    Bind(gcm_init_ciphers(ctx.crypto_ctx, ctx.sym_keystore, gcm_get_nonce(ctx, explicit_nonce)), LAMBDA init :
        IF aead.err # "" THEN [err |-> aead.err, warn |-> "", v |-> <<>>, ctx |-> ctx]
        ELSE IF init.err # "" THEN [err |-> init.err, warn |-> "", v |-> <<>>, ctx |-> ctx]
        ELSE Bind(gcm_decrypt_and_verify(init.v.dec_cipher, aead.v, ct, tag), LAMBDA d :
             Bind(IF d.verified THEN [err |-> "", warn |-> ""] ELSE gcm_verify_failed, LAMBDA verify :
             Bind(UnpackQ(explicit_nonce), LAMBDA unpacked :
             Bind([ctx EXCEPT !.crypto_ctx = init.v], LAMBDA ctx1 :
                 IF verify.err # "" THEN [err |-> verify.err, warn |-> verify.warn, v |-> <<>>, ctx |-> ctx1]
                 ELSE IF unpacked.err # ""
                      THEN [err |-> unpacked.err, warn |-> verify.warn, v |-> <<>>, ctx |-> ctx1]
                 ELSE [err |-> "", warn |-> verify.warn,
                       v |-> Cat(Cat(explicit_nonce, d.cleartext), tag),
                       ctx |-> [ctx1 EXCEPT !.nonce = unpacked.v, !.sequence = BigInc(@)]])))))))))

\* Mutation of encrypt_data: a context that takes a record without having an engine
encrypt_data_without_engine(ctx, tls, data, r) ==
    [err |-> "", v |-> data, ctx |-> [ctx EXCEPT !.sequence = BigInc(@)]]

\* ctx.crypto_ctx.encrypt_data(data): AttributeError while crypto_ctx is None
encrypt_data(ctx, tls, data, r) ==
    IF ctx.crypto_ctx = NoneRec THEN [err |-> "AttributeError", v |-> <<>>, ctx |-> ctx]
    ELSE IF ctx.crypto_ctx.t = "StreamCryptoContext" THEN stream_encrypt_data(ctx, tls, data)
    ELSE IF ctx.crypto_ctx.t = "CBCCryptoContext" THEN cbc_encrypt_data(ctx, tls, data, r)
    ELSE gcm_encrypt_data(ctx, tls, data)

\* ctx.crypto_ctx.decrypt(ciphertext): AttributeError while crypto_ctx is None
decrypt(ctx, tls, ciphertext) ==
    IF ctx.crypto_ctx = NoneRec THEN [err |-> "AttributeError", warn |-> "", v |-> <<>>, ctx |-> ctx]
    ELSE IF ctx.crypto_ctx.t = "StreamCryptoContext" THEN stream_decrypt(ctx, tls, ciphertext)
    ELSE IF ctx.crypto_ctx.t = "CBCCryptoContext" THEN cbc_decrypt(ctx, tls, ciphertext)
    ELSE gcm_decrypt(ctx, tls, ciphertext, APPLICATION_DATA)

(***************************************************************************)
(* Key stores of the handshake (ssl_tls_keystore) and the wire helpers.    *)
(* An RSA key is named by a positive number, 0 stands for None.            *)
(***************************************************************************)
EmptyAsymKeystore == [t |-> "EmptyAsymKeystore", private |-> 0, public |-> 0, certificate |-> None]

EmptyKexKeystore == [t |-> "EmptyKexKeystore"]

\* tlsk.RSAKeystore.from_private(private)
RSAKeystore_from_private(private) ==
    [t |-> "RSAKeystore", private |-> private, public |-> private, certificate |-> None]

\* a DER certificate carrying public key n
Certificate(n) ==
    Blob([k |-> "x509", key |-> n], 64)

\* tlsk.RSAKeystore.from_der_certificate(cert)
RSAKeystore_from_der_certificate(cert) ==
    [t |-> "RSAKeystore", private |-> 0, public |-> cert[1].b.key, certificate |-> cert]

\* PKCS1_v1_5.new(public).encrypt(cleartext)
pkcs1_encrypt(public, cleartext) ==
    Blob([k |-> "pkcs1", key |-> public, pt |-> cleartext], 128)

\* PKCS1_v1_5.new(private).decrypt(ciphertext, None): the sentinel None unless the
\* ciphertext was made for this key
pkcs1_decrypt(private, ciphertext) ==
    IF /\ Len(ciphertext) = 1
       /\ ciphertext[1].t = "c"
       /\ ciphertext[1].b.k = "pkcs1"
       /\ ciphertext[1].lo = 1
       /\ ciphertext[1].hi = 128
       /\ ciphertext[1].b.key = private
    THEN ciphertext[1].b.pt
    ELSE None

\* tlsk.DHKeyStore(g, p, public)
DHKeyStore(g, p, public) ==
    [t |-> "DHKeyStore", g |-> g, p |-> p, public |-> public]

\* tlsk.ECDHKeyStore(curve, public): curve "None" marks the curve unknown
ECDHKeyStore(curve, public) ==
    [t |-> "ECDHKeyStore", curve |-> curve, public |-> public, unknown_curve |-> (curve = "None")]

\* str_to_int: int(binascii.hexlify(str_), 16), ValueError on the empty string
str_to_int(str_) ==
    IF str_ = <<>> THEN [err |-> "ValueError", v |-> <<>>]
    ELSE [err |-> "", v |-> StripZeros(Bytes(str_))]

\* ansi_str_to_point
ansi_str_to_point(str_) ==
    IF str_ = <<>> \/ Bytes(str_)[1] # 4 THEN [err |-> "ValueError", x |-> <<>>, y |-> <<>>]
    ELSE Bind(Drop(str_, 1), LAMBDA rest :
         Bind(BLen(rest) \div 2, LAMBDA half :
         Bind(str_to_int(Take(rest, half)), LAMBDA x :
         Bind(str_to_int(Drop(rest, half)), LAMBDA y :
             IF BLen(rest) % 2 # 0 THEN [err |-> "ValueError", x |-> <<>>, y |-> <<>>]
             ELSE IF x.err # "" \/ y.err # "" THEN [err |-> "ValueError", x |-> <<>>, y |-> <<>>]
             ELSE [err |-> "", x |-> x.v, y |-> y.v]))))

\* tls.TLS_ELLIPTIC_CURVES restricted to the curve ids the model feeds
TLS_ELLIPTIC_CURVES == (23 :> "secp256r1") @@ (1 :> "sect163k1")

\* the names ec_reg.get_curve knows, of those above
EC_CURVE_REGISTRY == {"secp256r1"}

\* ec.Point(curve, x, y): AttributeError when curve is None
ec_Point(curve, x, y) ==
    IF curve = "None" THEN [err |-> "AttributeError", v |-> [curve |-> "None", x |-> x, y |-> y]]
    ELSE [err |-> "", v |-> [curve |-> curve, x |-> x, y |-> y]]

(***************************************************************************)
(* TLSContext and TLSSessionCtx.  A session is the record of its           *)
(* attributes; each handler maps a session and its input to the error      *)
(* raised (or ""), the warning issued (or "") and the session afterwards.  *)
(* None is -1 for a version, a cipher suite id or a compression method and *)
(* "None" for a name.                                                      *)
(***************************************************************************)
\* TLSContext.__init__
TLSContext(name) ==
    [name |-> name,
     handshake |-> NoneRec,
     sequence |-> <<>>,
     nonce |-> <<>>,
     random |-> None,
     session_id |-> None,
     crypto_ctx |-> NoneRec,
     compression |-> "None",
     asym_keystore |-> EmptyAsymKeystore,
     kex_keystore |-> EmptyKexKeystore,
     sym_keystore |-> EmptySymKeyStore]

\* TLSContext.load_rsa_keys
load_rsa_keys(ctx, private) ==
    [ctx EXCEPT !.asym_keystore = RSAKeystore_from_private(private)]

\* TLSSessionCtx.__init__
TLSSessionCtx(is_client) ==
    [client |-> is_client,
     server |-> ~is_client,
     client_ctx |-> TLSContext("Client TLS context"),
     server_ctx |-> TLSContext("Server TLS context"),
     history |-> <<>>,
     requires_iv |-> FALSE,
     sec_params |-> NoneRec,
     negotiated |-> [ciphersuite |-> -1, key_exchange |-> "None", encryption |-> NoneRec,
                     mac |-> "None", compression |-> -1, compression_algo |-> "None",
                     version |-> -1, sig |-> "None", resumption |-> FALSE],
     encrypted_premaster_secret |-> None,
     premaster_secret |-> None,
     master_secret |-> None,
     prf |-> NoneRec]

\* TLSCompressionParameters.comp_params
comp_params ==
    (0 :> [name |-> "NULL", type |-> "NullCompression"]) @@ (1 :> [name |-> "DEFLATE", type |-> "zlib"])

\* TLSSessionCtx._generate_random_pms; r names the 46 bytes drawn
\* Mutation of handle_client_hello: every ClientHello draws a new placeholder
handle_client_hello_redrawing(s, client_hello, r) ==
    [err |-> "", warn |-> "",
     s |-> [s EXCEPT !.client_ctx.handshake = client_hello,
                     !.client_ctx.session_id = client_hello.session_id,
                     !.client_ctx.random = Cat(PackN(client_hello.gmt_unix_time, 4),
                                               client_hello.random_bytes),
                     !.premaster_secret = Cat(PackN(client_hello.version, 2), urandom(46, r))]]

generate_random_pms(version, r) ==
    Cat(PackN(version, 2), urandom(46, r))

\* TLSSessionCtx.__handle_client_hello
handle_client_hello(s, client_hello, r) ==
    LET s1 == [s EXCEPT !.client_ctx.handshake = client_hello,
                        !.client_ctx.session_id = client_hello.session_id,
                        !.client_ctx.random = Cat(PackN(client_hello.gmt_unix_time, 4),
                                                  client_hello.random_bytes)]
    IN  [err |-> "", warn |-> "",
         s |-> IF s1.premaster_secret = None
               THEN [s1 EXCEPT !.premaster_secret = generate_random_pms(client_hello.version, r)]
               ELSE s1]

\* Mutation of generate_secrets: new engines start their directions at sequence
\* number 0 again
generate_secrets_from_zero(s) ==
    Bind(CryptoContextFactory_new(s.sec_params, s.sec_params.client_keystore, s.requires_iv), LAMBDA fc :
    Bind(CryptoContextFactory_new(s.sec_params, s.sec_params.server_keystore, s.requires_iv), LAMBDA fs :
        IF fc.err # "" \/ fs.err # "" THEN [err |-> fc.err \o fs.err, warn |-> "", s |-> s]
        ELSE [err |-> "", warn |-> "",
              s |-> [s EXCEPT !.master_secret = s.sec_params.master_secret,
                              !.client_ctx.crypto_ctx = fc.v,
                              !.client_ctx.sym_keystore = fc.sym_keystore,
                              !.client_ctx.sequence = BigOfNat(0),
                              !.server_ctx.crypto_ctx = fs.v,
                              !.server_ctx.sym_keystore = fs.sym_keystore,
                              !.server_ctx.sequence = BigOfNat(0)]]))

\* Mutation of generate_secrets: a derivation that installs nothing
generate_no_secrets(s) ==
    [err |-> "", warn |-> "", s |-> s]

\* TLSSessionCtx.__generate_secrets.  A key store taken from the security
\* parameters is the same object as theirs, so the IV the CBC engine zeroes shows in
\* both; a key store that was kept is a different object.
generate_secrets(s) ==
    Bind(s.client_ctx.sym_keystore.t = "EmptySymKeyStore", LAMBDA c_new :
    Bind(s.server_ctx.sym_keystore.t = "EmptySymKeyStore", LAMBDA s_new :
    Bind([s EXCEPT !.client_ctx.sym_keystore = IF c_new THEN s.sec_params.client_keystore ELSE @,
                        !.server_ctx.sym_keystore = IF s_new THEN s.sec_params.server_keystore ELSE @,
                        !.master_secret = s.sec_params.master_secret], LAMBDA s1 :
    Bind(CryptoContextFactory_new(s1.sec_params, s1.client_ctx.sym_keystore, s1.requires_iv), LAMBDA fc :
    Bind([s1 EXCEPT !.client_ctx.crypto_ctx = fc.v,
                         !.client_ctx.sym_keystore = fc.sym_keystore,
                         !.sec_params.client_keystore = IF c_new THEN fc.sym_keystore ELSE @], LAMBDA s2 :
    Bind(CryptoContextFactory_new(s2.sec_params, s2.server_ctx.sym_keystore, s2.requires_iv), LAMBDA fs :
    Bind([s2 EXCEPT !.server_ctx.crypto_ctx = fs.v,
                         !.server_ctx.sym_keystore = fs.sym_keystore,
                         !.sec_params.server_keystore = IF s_new THEN fs.sym_keystore ELSE @], LAMBDA s3 :
        IF fc.err # "" THEN [err |-> fc.err, warn |-> "", s |-> s1]
        ELSE IF fs.err # "" THEN [err |-> fs.err, warn |-> "", s |-> s2]
        ELSE [err |-> "", warn |-> "", s |-> s3])))))))

\* the lookup of the negotiated suite's PRF digest and TLSPRF(...) in
\* __handle_server_hello: KeyError for a suite that is not in crypto_params
server_hello_prf(version, cipher_suite) ==
    IF cipher_suite \notin DOMAIN crypto_params THEN [err |-> "KeyError", v |-> NoneRec]
    ELSE TLSPRF(version, crypto_params[cipher_suite].prf)

\* TLSSessionCtx.__handle_server_hello
handle_server_hello(s, server_hello) ==
    Bind(server_hello.cipher_suite, LAMBDA suite :
    Bind(server_hello.compression_method, LAMBDA comp :
    Bind([s EXCEPT !.server_ctx.handshake = server_hello,
                        !.server_ctx.session_id = server_hello.session_id,
                        !.server_ctx.random = Cat(PackN(server_hello.gmt_unix_time, 4),
                                                  server_hello.random_bytes),
                        !.negotiated.version = server_hello.version,
                        !.requires_iv = server_hello.version > TLS_1_0,
                        !.negotiated.ciphersuite = suite,
                        !.negotiated.compression = comp], LAMBDA s1 :
    Bind(IF comp \in DOMAIN comp_params
              THEN [s1 EXCEPT !.negotiated.compression_algo = comp_params[comp].name,
                              !.server_ctx.compression = comp_params[comp].type,
                              !.client_ctx.compression = comp_params[comp].type]
              ELSE s1, LAMBDA s2 :
    Bind(IF suite \in DOMAIN crypto_params
              THEN [s2 EXCEPT !.negotiated.key_exchange = crypto_params[suite].key_exchange.name,
                              !.negotiated.sig = crypto_params[suite].key_exchange.sig,
                              !.negotiated.encryption = [name |-> crypto_params[suite].cipher.name,
                                                         key_len |-> crypto_params[suite].cipher.key_len,
                                                         mode_name |-> crypto_params[suite].cipher.mode_name],
                              !.negotiated.mac = crypto_params[suite].hash.name]
              ELSE s2, LAMBDA s3 :
    Bind(IF suite \notin DOMAIN crypto_params THEN "Cipher not supported"
                ELSE IF comp \notin DOMAIN comp_params THEN "Compression method not supported"
                ELSE "", LAMBDA warn :
    Bind(server_hello_prf(s3.negotiated.version, s3.negotiated.ciphersuite), LAMBDA prf :
    Bind([s3 EXCEPT !.prf = prf.v], LAMBDA s4 :
    Bind(from_master_secret(s4.prf, s4.negotiated.ciphersuite, s4.master_secret,
                                  s4.client_ctx.random, s4.server_ctx.random), LAMBDA sp :
    Bind(generate_secrets([s4 EXCEPT !.sec_params = sp.v]), LAMBDA gen :
        IF prf.err # "" THEN [err |-> prf.err, warn |-> warn, s |-> s3]
        ELSE IF ~s4.negotiated.resumption THEN [err |-> "", warn |-> warn, s |-> s4]
        ELSE IF sp.err # "" THEN [err |-> sp.err, warn |-> warn, s |-> s4]
        ELSE [err |-> gen.err, warn |-> warn, s |-> gen.s]))))))))))

\* Mutation of handle_cert_list: the store is built from the certificate whatever
\* it held before
handle_cert_list_replacing(s, cert_list) ==
    IF s.negotiated.key_exchange # "None"
       /\ (s.negotiated.key_exchange = "RSA" \/ s.negotiated.sig = "RSA")
    THEN IF cert_list.certificates = <<>> THEN [err |-> "IndexError", warn |-> "", s |-> s]
         ELSE [err |-> "", warn |-> "",
               s |-> [s EXCEPT !.server_ctx.asym_keystore
                                   = RSAKeystore_from_der_certificate(cert_list.certificates[1])]]
    ELSE [err |-> "", warn |-> "", s |-> s]

\* TLSSessionCtx.__handle_cert_list
handle_cert_list(s, cert_list) ==
    IF s.negotiated.key_exchange # "None"
       /\ (s.negotiated.key_exchange = "RSA" \/ s.negotiated.sig = "RSA")
    THEN IF cert_list.certificates = <<>> THEN [err |-> "IndexError", warn |-> "", s |-> s]
         ELSE LET cert == cert_list.certificates[1]
              IN  [err |-> "", warn |-> "",
                   s |-> IF s.server_ctx.asym_keystore.t = "EmptyAsymKeystore"
                         THEN [s EXCEPT !.server_ctx.asym_keystore = RSAKeystore_from_der_certificate(cert)]
                         ELSE [s EXCEPT !.server_ctx.asym_keystore.certificate = cert]]
    ELSE [err |-> "", warn |-> "", s |-> s]

\* Mutation of handle_server_kex: a handler that lets the failed curve lookup
\* escape
handle_server_kex_strict(s, server_kex) ==
    IF server_kex.params = "ECDH" /\ s.server_ctx.kex_keystore.t = "EmptyKexKeystore"
    THEN IF server_kex.curve_name \notin DOMAIN TLS_ELLIPTIC_CURVES
         THEN [err |-> "KeyError", warn |-> "", s |-> s]
         ELSE IF TLS_ELLIPTIC_CURVES[server_kex.curve_name] \notin EC_CURVE_REGISTRY
         THEN [err |-> "ValueError", warn |-> "", s |-> s]
         ELSE Bind(ansi_str_to_point(server_kex.p), LAMBDA point :
              Bind(TLS_ELLIPTIC_CURVES[server_kex.curve_name], LAMBDA curve :
                  [err |-> "", warn |-> "",
                   s |-> [s EXCEPT !.server_ctx.kex_keystore =
                              ECDHKeyStore(curve, ec_Point(curve, point.x, point.y).v)]]))
    ELSE [err |-> "", warn |-> "", s |-> s]

\* TLSSessionCtx.__handle_server_kex
handle_server_kex(s, server_kex) ==
    IF server_kex.params = "DH"
    THEN IF s.server_ctx.kex_keystore.t # "EmptyKexKeystore" THEN [err |-> "", warn |-> "", s |-> s]
         ELSE Bind(str_to_int(server_kex.p), LAMBDA p :
              Bind(str_to_int(server_kex.g), LAMBDA g :
              Bind(str_to_int(server_kex.y_s), LAMBDA public :
                  IF p.err # "" \/ g.err # "" \/ public.err # ""
                  THEN [err |-> "ValueError", warn |-> "", s |-> s]
                  ELSE [err |-> "", warn |-> "",
                        s |-> [s EXCEPT !.server_ctx.kex_keystore = DHKeyStore(g.v, p.v, public.v)]])))
    ELSE IF server_kex.params = "ECDH"
    THEN IF s.server_ctx.kex_keystore.t # "EmptyKexKeystore" THEN [err |-> "", warn |-> "", s |-> s]
         ELSE Bind(server_kex.curve_name, LAMBDA curve_id :
              Bind(ansi_str_to_point(server_kex.p), LAMBDA point :
              Bind([curve |-> "None", x |-> point.x, y |-> point.y], LAMBDA raw :
                  IF point.err # "" THEN [err |-> point.err, warn |-> "", s |-> s]
                  ELSE IF curve_id \notin DOMAIN TLS_ELLIPTIC_CURVES
                  THEN [err |-> "", warn |-> "Unknown elliptic curve id",
                        s |-> [s EXCEPT !.server_ctx.kex_keystore = ECDHKeyStore("None", raw)]]
                  ELSE IF TLS_ELLIPTIC_CURVES[curve_id] \notin EC_CURVE_REGISTRY
                  THEN [err |-> "", warn |-> "Unsupported elliptic curve",
                        s |-> [s EXCEPT !.server_ctx.kex_keystore = ECDHKeyStore("None", raw)]]
                  ELSE Bind(TLS_ELLIPTIC_CURVES[curve_id], LAMBDA curve :
                           [err |-> "", warn |-> "",
                            s |-> [s EXCEPT !.server_ctx.kex_keystore =
                                       ECDHKeyStore(curve, ec_Point(curve, point.x, point.y).v)]]))))
    ELSE [err |-> "", warn |-> "Unknown server key exchange", s |-> s]

\* the key exchange part of __handle_client_kex, up to the derivation
\* Mutation of client_kex_params: DH parameters of the client replace whatever the
\* key exchange store of the client holds
client_kex_params_overwriting(s, client_kex) ==
    IF client_kex.params = "DH" /\ s.server_ctx.kex_keystore.t = "DHKeyStore"
    THEN [err |-> "", warn |-> "",
          s |-> [s EXCEPT !.client_ctx.kex_keystore =
                     DHKeyStore(s.server_ctx.kex_keystore.g, s.server_ctx.kex_keystore.p,
                                str_to_int(client_kex.data).v)]]
    ELSE [err |-> "", warn |-> "", s |-> s]

client_kex_params(s, client_kex) ==
    IF client_kex.params = "RSA"
    THEN Bind([s EXCEPT !.encrypted_premaster_secret = client_kex.data], LAMBDA s1 :
         Bind(s.server_ctx.asym_keystore.private, LAMBDA private :
             [err |-> "", warn |-> "",
              s |-> IF private # 0
                    THEN [s1 EXCEPT !.premaster_secret = pkcs1_decrypt(private, client_kex.data)]
                    ELSE s1]))
    ELSE IF client_kex.params = "DH"
    THEN IF s.client_ctx.kex_keystore.t # "EmptyKexKeystore" THEN [err |-> "", warn |-> "", s |-> s]
         ELSE IF s.server_ctx.kex_keystore.t # "DHKeyStore" THEN [err |-> "RuntimeError", warn |-> "", s |-> s]
         ELSE Bind(str_to_int(client_kex.data), LAMBDA client_public :
                  IF client_public.err # "" THEN [err |-> client_public.err, warn |-> "", s |-> s]
                  ELSE [err |-> "", warn |-> "",
                        s |-> [s EXCEPT !.client_ctx.kex_keystore =
                                   DHKeyStore(s.server_ctx.kex_keystore.g, s.server_ctx.kex_keystore.p,
                                              client_public.v)]])
    ELSE IF client_kex.params = "ECDH"
    THEN IF s.client_ctx.kex_keystore.t # "EmptyKexKeystore" THEN [err |-> "", warn |-> "", s |-> s]
         ELSE IF s.server_ctx.kex_keystore.t # "ECDHKeyStore" THEN [err |-> "", warn |-> "", s |-> s]
         ELSE Bind(s.server_ctx.kex_keystore.curve, LAMBDA curve :
              Bind(ansi_str_to_point(client_kex.data), LAMBDA point :
              Bind(ec_Point(curve, point.x, point.y), LAMBDA pt :
                  IF point.err # "" THEN [err |-> point.err, warn |-> "", s |-> s]
                  ELSE IF pt.err # "" THEN [err |-> pt.err, warn |-> "", s |-> s]
                  ELSE [err |-> "", warn |-> "",
                        s |-> [s EXCEPT !.client_ctx.kex_keystore = ECDHKeyStore(curve, pt.v)]])))
    ELSE [err |-> "", warn |-> "Unknown client key exchange", s |-> s]

\* Mutation of handle_client_kex: the key exchange without the derivation
handle_client_kex_without_secrets(s, client_kex) ==
    client_kex_params(s, client_kex)

\* Mutation of handle_client_kex: the result of the construction is stored before
\* it is known to have succeeded
handle_client_kex_storing_failure(s, client_kex) ==
    Bind(client_kex_params(s, client_kex), LAMBDA kex :
    Bind(from_pre_master_secret(kex.s.prf, kex.s.negotiated.ciphersuite, kex.s.premaster_secret,
                                      kex.s.client_ctx.random, kex.s.server_ctx.random), LAMBDA sp :
        IF kex.err # "" THEN kex
        ELSE [err |-> sp.err, warn |-> kex.warn, s |-> [kex.s EXCEPT !.sec_params = sp.v]]))

\* TLSSessionCtx.__handle_client_kex
handle_client_kex(s, client_kex) ==
    Bind(client_kex_params(s, client_kex), LAMBDA kex :
    Bind(from_pre_master_secret(kex.s.prf, kex.s.negotiated.ciphersuite, kex.s.premaster_secret,
                                      kex.s.client_ctx.random, kex.s.server_ctx.random), LAMBDA sp :
    Bind(generate_secrets([kex.s EXCEPT !.sec_params = sp.v]), LAMBDA gen :
        IF kex.err # "" THEN kex
        ELSE IF sp.err # "" THEN [err |-> sp.err, warn |-> kex.warn, s |-> kex.s]
        ELSE [err |-> gen.err, warn |-> kex.warn, s |-> gen.s])))

\* TLSSessionCtx._process
process(s, pkt, r) ==
    IF pkt.kind = "ClientHello" THEN handle_client_hello(s, pkt, r)
    ELSE IF pkt.kind = "ServerHello" THEN handle_server_hello(s, pkt)
    ELSE IF pkt.kind = "CertificateList" THEN handle_cert_list(s, pkt)
    ELSE IF pkt.kind = "ServerKeyExchange" THEN handle_server_kex(s, pkt)
    ELSE IF pkt.kind = "ClientKeyExchange" THEN handle_client_kex(s, pkt)
    ELSE [err |-> "", warn |-> "", s |-> s]

\* TLSSessionCtx.insert of one record: the packet is in the history before it is
\* processed
insert(s, pkt, r) ==
    process([s EXCEPT !.history = Append(@, pkt)], pkt, r)

\* TLSSessionCtx.resume_session
resume_session(s, master_secret) ==
    [s EXCEPT !.master_secret = master_secret, !.negotiated.resumption = TRUE]

(***************************************************************************)
(* The accessors a client calls to build its ClientKeyExchange and its     *)
(* CertificateVerify.  A private key argument is a number, -1 for None; r  *)
(* is the number a fresh key pair draws.                                   *)
(***************************************************************************)
\* int_to_str: the big-endian bytes of int_, one zero byte for 0
int_to_str(int_) ==
    IF int_ = <<>> THEN Run(0, 1) ELSE Lit(int_)

\* str.lstrip("\x00") of literal bytes
lstrip_zeros(str_) ==
    Lit(StripZeros(Bytes(str_)))

\* point_to_ansi_str
point_to_ansi_str(point) ==
    Cat(Cat(Run(4, 1), int_to_str(point.x)), int_to_str(point.y))

RECURSIVE NatOfBig(_)
\* the number of a digit sequence
NatOfBig(ds) ==
    IF ds = <<>> THEN 0 ELSE NatOfBig(SubSeq(ds, 1, Len(ds) - 1)) * 256 + ds[Len(ds)]

RECURSIVE pow(_, _, _)
\* pow(b, e, m)
pow(b, e, m) ==
    IF e = 0 THEN 1 % m ELSE (b * pow(b, e - 1, m)) % m

\* tlsk.DHKeyStore.new_keypair(g, p, private): public is g ^ private mod p
DHKeyStore_new_keypair(g, p, private) ==
    [t |-> "DHKeyStore", g |-> g, p |-> p,
     public |-> BigOfNat(pow(NatOfBig(g), private, NatOfBig(p))), private |-> private]

\* DHKeyStore.get_psk(public): public ^ private mod p
DHKeyStore_get_psk(keystore, public) ==
    BigOfNat(pow(NatOfBig(public), keystore.private, NatOfBig(keystore.p)))

\* the order of the group that stands for a curve, and its base point
EC_FIELD == 251

EC_BASE == [x |-> <<3>>, y |-> <<7>>]

\* k * point on a curve.  The curve arithmetic of tinyec is replaced by a
\* commutative action of the scalars on the coordinates: k * (j * P) = j * (k * P).
ec_mul(k, curve, point) ==
    [curve |-> curve,
     x |-> BigOfNat((k * NatOfBig(point.x)) % EC_FIELD),
     y |-> BigOfNat((k * NatOfBig(point.y)) % EC_FIELD)]

\* ec.Keypair(curve, private) and ec.make_keypair(curve)
ec_Keypair(curve, private) ==
    [curve |-> curve, priv |-> private, pub |-> ec_mul(private, curve, EC_BASE)]

\* tlsk.ECDHKeyStore.from_keypair(curve, keypair)
ECDHKeyStore_from_keypair(curve, keypair) ==
    [t |-> "ECDHKeyStore", curve |-> curve, public |-> keypair.pub, unknown_curve |-> FALSE,
     private |-> keypair.priv]

\* pms or self.premaster_secret
CustomPmsOr(s, pms) ==
    IF pms = None \/ pms = <<>> THEN s.premaster_secret ELSE pms

\* Mutation of get_encrypted_pms: encryption without a look at the public key
get_encrypted_pms_unchecked(s, pms) ==
    [err |-> "", v |-> pkcs1_encrypt(s.server_ctx.asym_keystore.public, CustomPmsOr(s, pms)),
     s |-> [s EXCEPT !.encrypted_premaster_secret =
                pkcs1_encrypt(s.server_ctx.asym_keystore.public, CustomPmsOr(s, pms))]]

\* TLSSessionCtx.get_encrypted_pms(pms): the bytes returned and the session afterwards
get_encrypted_pms(s, pms) ==
    Bind(CustomPmsOr(s, pms), LAMBDA cleartext :
    Bind(s.server_ctx.asym_keystore.public, LAMBDA public :
        IF public = 0 THEN [err |-> "ValueError", v |-> <<>>, s |-> s]
        ELSE IF cleartext = None THEN [err |-> "TypeError", v |-> <<>>, s |-> s]
        ELSE [err |-> "", v |-> pkcs1_encrypt(public, cleartext),
              s |-> [s EXCEPT !.encrypted_premaster_secret = pkcs1_encrypt(public, cleartext)]]))

\* TLSSessionCtx.get_client_dh_pubkey(private)
get_client_dh_pubkey(s, private, r) ==
    IF s.server_ctx.kex_keystore.t # "DHKeyStore" THEN [err |-> "RuntimeError", v |-> <<>>, s |-> s]
    ELSE Bind(s.server_ctx.kex_keystore, LAMBDA server_kex_keystore :
         Bind(DHKeyStore_new_keypair(server_kex_keystore.g, server_kex_keystore.p,
                                     IF private = -1 THEN r ELSE private), LAMBDA keystore :
         Bind(DHKeyStore_get_psk(keystore, server_kex_keystore.public), LAMBDA pms :
             [err |-> "", v |-> int_to_str(keystore.public),
              s |-> [s EXCEPT !.client_ctx.kex_keystore = keystore,
                              !.premaster_secret = lstrip_zeros(int_to_str(pms))]])))

\* TLSSessionCtx.get_client_ecdh_pubkey(private)
get_client_ecdh_pubkey(s, private, r) ==
    IF s.server_ctx.kex_keystore.t # "ECDHKeyStore" THEN [err |-> "RuntimeError", v |-> <<>>, s |-> s]
    ELSE IF s.server_ctx.kex_keystore.unknown_curve THEN [err |-> "RuntimeError", v |-> <<>>, s |-> s]
    ELSE Bind(s.server_ctx.kex_keystore.curve, LAMBDA curve :
         Bind(ec_Keypair(curve, IF private = -1 THEN r ELSE private), LAMBDA client_keypair :
         Bind(ec_mul(client_keypair.priv, curve, s.server_ctx.kex_keystore.public), LAMBDA secret_point :
             [err |-> "", v |-> point_to_ansi_str(client_keypair.pub),
              s |-> [s EXCEPT !.client_ctx.kex_keystore = ECDHKeyStore_from_keypair(curve, client_keypair),
                              !.premaster_secret = int_to_str(secret_point.x)]])))

\* TLSSessionCtx.get_handshake_hash(hash_): hash_ after an update with every
\* handshake message of the history.  A hash object is the messages it was fed.
get_handshake_hash(s, hash_) ==
    hash_ \o s.history

\* Sig_PKCS1_v1_5.new(private).sign(msg_hash)
pkcs1_sign(private, msg_hash) ==
    Blob([k |-> "pkcs1_sig", key |-> private, msg |-> msg_hash], 128)

\* TLSSessionCtx.get_client_signed_handshake_hash(hash_): the signature returned and
\* the hash object afterwards
get_client_signed_handshake_hash(s, hash_) ==
    IF s.client_ctx.asym_keystore.private = 0 THEN [err |-> "RuntimeError", v |-> <<>>, hash_ |-> hash_]
    ELSE Bind(get_handshake_hash(s, hash_), LAMBDA msg_hash :
             [err |-> "", v |-> pkcs1_sign(s.client_ctx.asym_keystore.private, msg_hash),
              hash_ |-> msg_hash])

\* the arguments of set_mode: a boolean, or the default None
ModeArguments == {"True", "False", "None"}

\* the truth value Python gives an argument of set_mode: None counts as false
Truth(argument) == argument = "True"

\* TLSSessionCtx.set_mode(client, server)
set_mode(s, client_, server_) ==
    [s EXCEPT !.client = IF Truth(client_) THEN Truth(client_) ELSE ~Truth(server_),
              !.server = ~(IF Truth(client_) THEN Truth(client_) ELSE ~Truth(server_))]

(***************************************************************************)
(* The state machine: one session, driven by the packets inserted into it, *)
(* the calls of its API and the record operations of its two contexts.     *)
(***************************************************************************)
\* packets inserted into a session of Spec, of SpecKex
MaxHistory == 3

MaxKexHistory == 4

\* completed record operations of a session of Spec, of SpecRecord
MaxSessionRecords == 1

MaxRecords == 2

\* completed record operations of a session of SpecSuites
MaxSuiteRecords == 1

\* packets inserted into the established session of SpecRekey
MaxRekeyHistory == 2

\* packets inserted into a session of SpecApi, and messages its accessors hash
MaxApiHistory == 2

MaxHashed == 2

\* packets inserted into each of the two sessions of SpecTwo
MaxTwoHistory == 2

VARIABLES client, server, client_ctx, server_ctx, history, requires_iv, sec_params,
          negotiated, encrypted_premaster_secret, premaster_secret, master_secret, prf,
          last, encrypts, gcm_encrypts, decrypts, gcm_nonces,
          SHA256_default, other

vars == <<client, server, client_ctx, server_ctx, history, requires_iv, sec_params,
          negotiated, encrypted_premaster_secret, premaster_secret, master_secret, prf,
          last, encrypts, gcm_encrypts, decrypts, gcm_nonces, SHA256_default, other>>

\* SHA256_default is the hash object that is the default value of the hash_ argument
\* of get_client_signed_handshake_hash: one object, made when the method is defined.
\* other is a second session object of the same process.
\* gcm_nonces holds, for each direction, the key and nonce of every GCM encrypt done.

\* the session object
Session ==
    [client |-> client, server |-> server, client_ctx |-> client_ctx, server_ctx |-> server_ctx,
     history |-> history, requires_iv |-> requires_iv, sec_params |-> sec_params,
     negotiated |-> negotiated, encrypted_premaster_secret |-> encrypted_premaster_secret,
     premaster_secret |-> premaster_secret, master_secret |-> master_secret, prf |-> prf]

\* the session object becomes s
Becomes(s) ==
    /\ client' = s.client
    /\ server' = s.server
    /\ client_ctx' = s.client_ctx
    /\ server_ctx' = s.server_ctx
    /\ history' = s.history
    /\ requires_iv' = s.requires_iv
    /\ sec_params' = s.sec_params
    /\ negotiated' = s.negotiated
    /\ encrypted_premaster_secret' = s.encrypted_premaster_secret
    /\ premaster_secret' = s.premaster_secret
    /\ master_secret' = s.master_secret
    /\ prf' = s.prf

Directions == {"client", "server"}

CtxOf(s, d) == IF d = "client" THEN s.client_ctx ELSE s.server_ctx

WithCtx(s, d, ctx) == IF d = "client" THEN [s EXCEPT !.client_ctx = ctx] ELSE [s EXCEPT !.server_ctx = ctx]

ViewOf(s) == TlsView(s.negotiated.version, s.requires_iv, s.sec_params)

\* what the caller of the last operation saw: the exception raised, the warning
\* issued and the bytes returned; pt is the plaintext handed to encrypt_data or
\* sealed in the peer's record handed to decrypt, intact tells a record of the peer
\* from a forged one
Outcome(op, who, err, warn, out, pt, intact) ==
    [op |-> op, who |-> who, err |-> err, warn |-> warn, out |-> out, pt |-> pt, intact |-> intact]

Init ==
    LET s == TLSSessionCtx(TRUE)
    IN  /\ client = s.client
        /\ server = s.server
        /\ client_ctx = s.client_ctx
        /\ server_ctx = s.server_ctx
        /\ history = s.history
        /\ requires_iv = s.requires_iv
        /\ sec_params = s.sec_params
        /\ negotiated = s.negotiated
        /\ encrypted_premaster_secret = s.encrypted_premaster_secret
        /\ premaster_secret = s.premaster_secret
        /\ master_secret = s.master_secret
        /\ prf = s.prf
        /\ last = Outcome("init", "", "", "", <<>>, None, FALSE)
        /\ encrypts = [d \in Directions |-> 0]
        /\ gcm_encrypts = [d \in Directions |-> 0]
        /\ gcm_nonces = [d \in Directions |-> {}]
        /\ decrypts = [d \in Directions |-> 0]
        /\ SHA256_default = <<>>
        /\ other = s

\* ---- the inputs ----
ClientHello(version, gmt_unix_time, random_bytes) ==
    [kind |-> "ClientHello", version |-> version, gmt_unix_time |-> gmt_unix_time,
     random_bytes |-> random_bytes, session_id |-> <<>>]

ServerHello(version, gmt_unix_time, random_bytes, cipher_suite, compression_method) ==
    [kind |-> "ServerHello", version |-> version, gmt_unix_time |-> gmt_unix_time,
     random_bytes |-> random_bytes, session_id |-> Run(7, 32),
     cipher_suite |-> cipher_suite, compression_method |-> compression_method]

CertificateList(certificates) ==
    [kind |-> "CertificateList", certificates |-> certificates]

ServerDHParams(p, g, y_s) ==
    [kind |-> "ServerKeyExchange", params |-> "DH", p |-> p, g |-> g, y_s |-> y_s]

ServerECDHParams(curve_name, p) ==
    [kind |-> "ServerKeyExchange", params |-> "ECDH", curve_name |-> curve_name, p |-> p]

ClientKeyExchange(params, data) ==
    [kind |-> "ClientKeyExchange", params |-> params, data |-> data]

\* the key pair of the server
ServerKey == 1

\* the premaster secret the peer's client sealed in its RSA key exchange
PeerPms == Cat(PackN(TLS_1_2, 2), Blob([k |-> "urandom", id |-> <<3>>], 46))

\* (version, cipher suite) of the ServerHellos: RC4_128_SHA, AES_128_CBC_SHA,
\* ECDHE_RSA_AES_256_GCM_SHA384 and a suite that is not registered
RC4_SHA == <<TLS_1_0, 5>>

CBC_SHA_10 == <<TLS_1_0, 47>>

CBC_SHA_11 == <<TLS_1_1, 47>>

GCM_SHA384 == <<TLS_1_2, 49200>>

UnknownSuite == <<TLS_1_2, 7>>

\* a GCM suite, whose registry entry names a PRF digest, under TLS 1.1
GCM_SHA384_11 == <<TLS_1_1, 49200>>

\* a suite whose registry entry names no PRF digest, under TLS 1.2
RC4_SHA_12 == <<TLS_1_2, 5>>

TheClientHello == ClientHello(TLS_1_2, 1, Run(1, 28))

ServerHelloOf(n) == ServerHello(n[1], 2, Run(2, 28), n[2], 0)

RsaClientKeyExchange == ClientKeyExchange("RSA", pkcs1_encrypt(ServerKey, PeerPms))

\* the packets of Spec
Negotiations == {RC4_SHA, CBC_SHA_11, UnknownSuite}

Packets == {TheClientHello, RsaClientKeyExchange} \cup {ServerHelloOf(n) : n \in Negotiations}

\* the packets of SpecKex
ServerKeyExchanges ==
    {ServerDHParams(Lit(<<23>>), Lit(<<2>>), Lit(<<5>>)),
     ServerECDHParams(23, Lit(<<4, 1, 2>>))}

\* an RSA key exchange that was sealed for another key than the server's
ForeignRsaClientKeyExchange == ClientKeyExchange("RSA", pkcs1_encrypt(ServerKey + 1, PeerPms))

ClientKeyExchanges ==
    {RsaClientKeyExchange,
     ForeignRsaClientKeyExchange,
     ClientKeyExchange("DH", Lit(<<9>>)),
     ClientKeyExchange("ECDH", Lit(<<4, 3, 4>>)),
     ClientKeyExchange("unknown", <<>>)}

KexPackets == {TheClientHello, ServerHelloOf(RC4_SHA)} \cup ServerKeyExchanges \cup ClientKeyExchanges

\* the packets of SpecRekey: hellos whose randoms come to 31 and 33 bytes, hellos
\* that name an unregistered suite, TLS 1.2 without a PRF digest and TLS 1.1 with
\* one, and the key exchanges of a second handshake
ShortClientHello == ClientHello(TLS_1_2, 1, Run(1, 27))

LongServerHello == ServerHello(TLS_1_2, 2, Run(2, 29), 49200, 0)

RekeyPackets ==
    {TheClientHello, ShortClientHello, LongServerHello, ServerHelloOf(UnknownSuite),
     ServerHelloOf(RC4_SHA_12), ServerHelloOf(GCM_SHA384_11),
     RsaClientKeyExchange, ClientKeyExchange("unknown", <<>>)}

\* the packets of SpecApi
UnknownCurveServerKeyExchange == ServerECDHParams(99, Lit(<<4, 1, 2>>))

\* a curve TLS names but the curve registry does not have
UnsupportedCurveServerKeyExchange == ServerECDHParams(1, Lit(<<4, 1, 2>>))

ApiPackets ==
    {TheClientHello, UnknownCurveServerKeyExchange, UnsupportedCurveServerKeyExchange}
        \cup ServerKeyExchanges

\* the key pair of the client
ClientKey == ServerKey + 2

\* the pms argument of get_encrypted_pms: None or a premaster secret of the caller
CustomPms == Cat(PackN(TLS_1_2, 2), Blob([k |-> "urandom", id |-> <<6>>], 46))

PmsArguments == {None, CustomPms}

\* the private argument of get_client_dh_pubkey and get_client_ecdh_pubkey (-1 for
\* None) and the private keys a fresh key pair may draw
PrivateArguments == {-1, 3}

KeypairDraws == {2, 4}

\* master secrets a caller resumes with: a 48 byte one and a short one
MasterSecrets == {Blob([k |-> "urandom", id |-> <<4>>], 48), Blob([k |-> "urandom", id |-> <<5>>], 10)}

\* the plaintext of the records of Spec
SessionPlaintexts == {Run(65, 1)}

\* the plaintexts of SpecRecord: empty, one byte, one block, two blocks
Plaintexts == {<<>>, Run(65, 1), Run(66, 16), Run(67, 32)}

\* the negotiations of the sessions of SpecRecord
RecordNegotiations == {RC4_SHA, CBC_SHA_10, CBC_SHA_11, GCM_SHA384}

\* the negotiations of the sessions of SpecSuites: every registered suite under
\* TLS 1.0 and under TLS 1.2
SuiteNegotiations == {<<v, c>> : v \in {TLS_1_0, TLS_1_2}, c \in DOMAIN crypto_params}

\* the plaintexts of SpecSuites: with a 16- or 20-byte MAC and the length byte they
\* end on and off the boundary of a block
SuitePlaintexts == {Run(65, 1), Run(66, 11), Run(67, 15)}

\* ---- the actions ----
\* session.insert(pkt)
Insert(pkt) ==
    /\ Bind(insert(Session, pkt, <<0, Len(history)>>), LAMBDA r :
           /\ Becomes(r.s)
           /\ last' = Outcome("insert", pkt.kind, r.err, r.warn, <<>>, None, FALSE))
    /\ UNCHANGED <<encrypts, gcm_encrypts, decrypts, gcm_nonces, SHA256_default, other>>

\* session.resume_session(master_secret)
ResumeSession(ms) ==
    /\ Becomes(resume_session(Session, ms))
    /\ last' = Outcome("resume_session", "", "", "", <<>>, None, FALSE)
    /\ UNCHANGED <<encrypts, gcm_encrypts, decrypts, gcm_nonces, SHA256_default, other>>

\* session.server_ctx.load_rsa_keys(private)
LoadRsaKeys ==
    /\ Becomes([Session EXCEPT !.server_ctx = load_rsa_keys(@, ServerKey)])
    /\ last' = Outcome("load_rsa_keys", "server", "", "", <<>>, None, FALSE)
    /\ UNCHANGED <<encrypts, gcm_encrypts, decrypts, gcm_nonces, SHA256_default, other>>

\* session.client_ctx.load_rsa_keys(private)
LoadClientRsaKeys ==
    /\ Becomes([Session EXCEPT !.client_ctx = load_rsa_keys(@, ClientKey)])
    /\ last' = Outcome("load_rsa_keys", "client", "", "", <<>>, None, FALSE)
    /\ UNCHANGED <<encrypts, gcm_encrypts, decrypts, gcm_nonces, SHA256_default, other>>

\* session.get_encrypted_pms(pms)
GetEncryptedPms(pms) ==
    /\ Bind(get_encrypted_pms(Session, pms), LAMBDA r :
           /\ Becomes(r.s)
           /\ last' = Outcome("get_encrypted_pms", "", r.err, "", r.v, pms, FALSE))
    /\ UNCHANGED <<encrypts, gcm_encrypts, decrypts, gcm_nonces, SHA256_default, other>>

\* session.get_client_dh_pubkey(private)
GetClientDhPubkey(private, draw) ==
    /\ Bind(get_client_dh_pubkey(Session, private, draw), LAMBDA r :
           /\ Becomes(r.s)
           /\ last' = Outcome("get_client_dh_pubkey", "", r.err, "", r.v, None, FALSE))
    /\ UNCHANGED <<encrypts, gcm_encrypts, decrypts, gcm_nonces, SHA256_default, other>>

\* session.get_client_ecdh_pubkey(private)
GetClientEcdhPubkey(private, draw) ==
    /\ Bind(get_client_ecdh_pubkey(Session, private, draw), LAMBDA r :
           /\ Becomes(r.s)
           /\ last' = Outcome("get_client_ecdh_pubkey", "", r.err, "", r.v, None, FALSE))
    /\ UNCHANGED <<encrypts, gcm_encrypts, decrypts, gcm_nonces, SHA256_default, other>>

\* session.get_client_signed_handshake_hash(): hash_ is the default object
GetClientSignedHandshakeHash ==
    /\ Bind(get_client_signed_handshake_hash(Session, SHA256_default), LAMBDA r :
           /\ SHA256_default' = r.hash_
           /\ last' = Outcome("get_client_signed_handshake_hash", "", r.err, "", r.v, None, FALSE))
    /\ UNCHANGED <<client, server, client_ctx, server_ctx, history, requires_iv, sec_params,
                   negotiated, encrypted_premaster_secret, premaster_secret, master_secret, prf,
                   encrypts, gcm_encrypts, decrypts, gcm_nonces, other>>

\* session.set_mode(client, server)
SetMode(client_, server_) ==
    /\ Becomes(set_mode(Session, client_, server_))
    /\ last' = Outcome("set_mode", "", "", "", <<client_, server_>>, None, FALSE)
    /\ UNCHANGED <<encrypts, gcm_encrypts, decrypts, gcm_nonces, SHA256_default, other>>

\* ---- the same calls on the second session ----
\* other.insert(pkt)
OtherInsert(pkt) ==
    /\ Bind(insert(other, pkt, <<9, Len(other.history)>>), LAMBDA r :
           /\ other' = r.s
           /\ last' = Outcome("other.insert", pkt.kind, r.err, r.warn, <<>>, None, FALSE))
    /\ UNCHANGED <<client, server, client_ctx, server_ctx, history, requires_iv, sec_params,
                   negotiated, encrypted_premaster_secret, premaster_secret, master_secret, prf,
                   encrypts, gcm_encrypts, decrypts, gcm_nonces, SHA256_default>>

\* other.client_ctx.load_rsa_keys(private)
OtherLoadClientRsaKeys ==
    /\ other' = [other EXCEPT !.client_ctx = load_rsa_keys(@, ClientKey)]
    /\ last' = Outcome("other.load_rsa_keys", "client", "", "", <<>>, None, FALSE)
    /\ UNCHANGED <<client, server, client_ctx, server_ctx, history, requires_iv, sec_params,
                   negotiated, encrypted_premaster_secret, premaster_secret, master_secret, prf,
                   encrypts, gcm_encrypts, decrypts, gcm_nonces, SHA256_default>>

\* other.get_client_signed_handshake_hash(): hash_ is the same default object
OtherGetClientSignedHandshakeHash ==
    /\ Bind(get_client_signed_handshake_hash(other, SHA256_default), LAMBDA r :
           /\ SHA256_default' = r.hash_
           /\ last' = Outcome("other.get_client_signed_handshake_hash", "", r.err, "", r.v, None, FALSE))
    /\ UNCHANGED <<client, server, client_ctx, server_ctx, history, requires_iv, sec_params,
                   negotiated, encrypted_premaster_secret, premaster_secret, master_secret, prf,
                   encrypts, gcm_encrypts, decrypts, gcm_nonces, other>>

\* the record operations completed so far
Records == encrypts["client"] + encrypts["server"] + decrypts["client"] + decrypts["server"]

\* the name of the explicit IV the next CBC record of direction d draws
IvName(s, d) == <<IF d = "client" THEN 1 ELSE 2>> \o CtxOf(s, d).sequence

\* session.<d>_ctx.crypto_ctx.encrypt_data(data)
EncryptData(d, data) ==
    /\ Bind(encrypt_data(CtxOf(Session, d), ViewOf(Session), data, IvName(Session, d)), LAMBDA r :
           /\ Becomes(WithCtx(Session, d, r.ctx))
           /\ last' = Outcome("encrypt_data", d, r.err, "", r.v, data, FALSE)
           /\ encrypts' = [encrypts EXCEPT ![d] = IF r.err = "" THEN @ + 1 ELSE @]
           /\ gcm_encrypts' = [gcm_encrypts EXCEPT ![d] =
                                 IF r.err = "" /\ CtxOf(Session, d).crypto_ctx.t = "GCMCryptoContext"
                                 THEN @ + 1 ELSE @]
           /\ gcm_nonces' = [gcm_nonces EXCEPT ![d] =
                                IF r.err = "" /\ CtxOf(Session, d).crypto_ctx.t = "GCMCryptoContext"
                                THEN @ \cup {[key |-> r.ctx.crypto_ctx.enc_cipher.key,
                                              nonce |-> r.ctx.crypto_ctx.enc_cipher.iv]}
                                ELSE @])
    /\ UNCHANGED <<decrypts, SHA256_default, other>>

\* the record the peer of direction d sends next for plaintext data: made with the
\* keys of d's context by an engine whose encrypting cipher is where d's decrypting
\* cipher is
PeerRecord(s, d, data) ==
    Bind(CtxOf(s, d), LAMBDA ctx :
    Bind([ctx EXCEPT !.crypto_ctx.enc_cipher = ctx.crypto_ctx.dec_cipher], LAMBDA peer :
        encrypt_data(peer, ViewOf(s), data, <<3>> \o ctx.sequence)))

\* the record the peer of a GCM direction d sends for data after one of its records
\* was lost on the way: its explicit nonce is one ahead of d's counter
SkippedPeerRecord(s, d, data) ==
    Bind(CtxOf(s, d), LAMBDA ctx :
        encrypt_data([ctx EXCEPT !.nonce = BigInc(@)], ViewOf(s), data, <<3>> \o ctx.sequence))

\* the largest value an explicit nonce of 8 bytes carries, 2^64 - 1
LastNonce == [i \in 1..GCM_EXPLICIT_IV_SIZE |-> 255]

\* the record the peer of a GCM direction d sends for data when its counter has
\* reached the largest value
LastNoncePeerRecord(s, d, data) ==
    Bind(CtxOf(s, d), LAMBDA ctx :
        encrypt_data([ctx EXCEPT !.nonce = LastNonce], ViewOf(s), data, <<3>> \o ctx.sequence))

\* a record with its last byte changed
Tampered(record) ==
    Cat(Slice(record, 0, -1), Blob([k |-> "forged"], 1))

\* session.<d>_ctx.crypto_ctx.decrypt(ciphertext)
DecryptWire(d, ciphertext, pt, intact) ==
    /\ Bind(decrypt(CtxOf(Session, d), ViewOf(Session), ciphertext), LAMBDA r :
           /\ Becomes(WithCtx(Session, d, r.ctx))
           /\ last' = Outcome("decrypt", d, r.err, r.warn, r.v, pt, intact)
           /\ decrypts' = [decrypts EXCEPT ![d] = IF r.err = "" THEN @ + 1 ELSE @])
    /\ UNCHANGED <<encrypts, gcm_encrypts, gcm_nonces, SHA256_default, other>>

\* decrypt of the record the peer made for data
DecryptPeer(d, data) ==
    /\ CtxOf(Session, d).crypto_ctx # NoneRec
    /\ PeerRecord(Session, d, data).err = ""
    /\ DecryptWire(d, PeerRecord(Session, d, data).v, data, TRUE)

\* decrypt of a record of the peer that was changed on the way
DecryptTampered(d, data) ==
    /\ CtxOf(Session, d).crypto_ctx # NoneRec
    /\ PeerRecord(Session, d, data).err = ""
    /\ DecryptWire(d, Tampered(PeerRecord(Session, d, data).v), data, FALSE)

\* decrypt of a GCM record of the peer whose explicit nonce is ahead of the counter
DecryptSkipped(d, data) ==
    /\ CtxOf(Session, d).crypto_ctx # NoneRec
    /\ CtxOf(Session, d).crypto_ctx.t = "GCMCryptoContext"
    /\ SkippedPeerRecord(Session, d, data).err = ""
    /\ DecryptWire(d, SkippedPeerRecord(Session, d, data).v, data, TRUE)

\* decrypt of a GCM record of the peer that carries the largest explicit nonce
DecryptLastNonce(d, data) ==
    /\ CtxOf(Session, d).crypto_ctx # NoneRec
    /\ CtxOf(Session, d).crypto_ctx.t = "GCMCryptoContext"
    /\ LastNoncePeerRecord(Session, d, data).err = ""
    /\ DecryptWire(d, LastNoncePeerRecord(Session, d, data).v, data, TRUE)

\* decrypt of bytes that no engine made
DecryptJunk(d) ==
    DecryptWire(d, Run(0, 32), None, FALSE)

\* ---- Spec: a session from its construction, negotiating and resuming ----
Next ==
    \/ \E pkt \in Packets : Len(history) < MaxHistory /\ Insert(pkt)
    \/ \E ms \in MasterSecrets : ResumeSession(ms)
    \/ \E d \in Directions, data \in SessionPlaintexts : Records < MaxSessionRecords /\ EncryptData(d, data)
    \/ \E d \in Directions : Records < MaxSessionRecords /\ DecryptJunk(d)

Spec == Init /\ [][Next]_vars

\* ---- SpecKex: a session from its construction, through the key exchanges ----
NextKex ==
    \/ \E pkt \in KexPackets : Len(history) < MaxKexHistory /\ Insert(pkt)
    \/ LoadRsaKeys

SpecKex == Init /\ [][NextKex]_vars

\* ---- SpecApi: a client session and the accessors that build its key exchange ----
NextApi ==
    \/ \E pkt \in ApiPackets : Len(history) < MaxApiHistory /\ Insert(pkt)
    \/ LoadRsaKeys
    \/ LoadClientRsaKeys
    \/ \E pms \in PmsArguments : GetEncryptedPms(pms)
    \/ \E private \in PrivateArguments, draw \in KeypairDraws : GetClientDhPubkey(private, draw)
    \/ \E private \in PrivateArguments, draw \in KeypairDraws : GetClientEcdhPubkey(private, draw)
    \/ Len(SHA256_default) < MaxHashed /\ GetClientSignedHandshakeHash
    \/ \E client_ \in {"True", "False"}, server_ \in {"True", "False"} : SetMode(client_, server_)

SpecApi == Init /\ [][NextApi]_vars

\* ---- SpecTwo: two sessions of one process, their calls interleaved ----
TwoPackets == {TheClientHello, ServerHelloOf(RC4_SHA)}

NextTwo ==
    \/ \E pkt \in TwoPackets : Len(history) < MaxTwoHistory /\ Insert(pkt)
    \/ LoadClientRsaKeys
    \/ Len(SHA256_default) < MaxHashed /\ GetClientSignedHandshakeHash
    \/ \E pkt \in TwoPackets : Len(other.history) < MaxTwoHistory /\ OtherInsert(pkt)
    \/ OtherLoadClientRsaKeys
    \/ Len(SHA256_default) < MaxHashed /\ OtherGetClientSignedHandshakeHash

SpecTwo == Init /\ [][NextTwo]_vars

\* ---- SpecRecord: the records of a session whose handshake has completed ----
\* the session after ClientHello, ServerHello of negotiation n and ClientKeyExchange
Established(n) ==
    Bind(insert(TLSSessionCtx(TRUE), TheClientHello, <<0, 0>>).s, LAMBDA s1 :
    Bind(insert(s1, ServerHelloOf(n), <<0, 1>>).s, LAMBDA s2 :
        insert(s2, ClientKeyExchange("unknown", <<>>), <<0, 2>>).s))

StartsEstablished(n) ==
        Bind(Established(n), LAMBDA s :
            /\ client = s.client
            /\ server = s.server
            /\ client_ctx = s.client_ctx
            /\ server_ctx = s.server_ctx
            /\ history = s.history
            /\ requires_iv = s.requires_iv
            /\ sec_params = s.sec_params
            /\ negotiated = s.negotiated
            /\ encrypted_premaster_secret = s.encrypted_premaster_secret
            /\ premaster_secret = s.premaster_secret
            /\ master_secret = s.master_secret
            /\ prf = s.prf
            /\ last = Outcome("insert", "ClientKeyExchange", "", "Unknown client key exchange", <<>>, None, FALSE)
            /\ encrypts = [d \in Directions |-> 0]
            /\ gcm_encrypts = [d \in Directions |-> 0]
            /\ gcm_nonces = [d \in Directions |-> {}]
            /\ decrypts = [d \in Directions |-> 0]
            /\ SHA256_default = <<>>
            /\ other = TLSSessionCtx(TRUE))

InitRecord ==
    \E n \in RecordNegotiations : StartsEstablished(n)

NextRecord ==
    \/ \E d \in Directions, data \in Plaintexts : Records < MaxRecords /\ EncryptData(d, data)
    \/ \E d \in Directions, data \in Plaintexts : Records < MaxRecords /\ DecryptPeer(d, data)
    \/ \E d \in Directions, data \in Plaintexts : Records < MaxRecords /\ DecryptTampered(d, data)
    \/ \E d \in Directions : Records < MaxRecords /\ DecryptJunk(d)
    \/ \E d \in Directions, data \in Plaintexts : Records < MaxRecords /\ DecryptSkipped(d, data)

SpecRecord == InitRecord /\ [][NextRecord]_vars

\* ---- SpecSuites: the records of an established session, for every registered
\* suite ----
InitSuites ==
    \E n \in SuiteNegotiations : StartsEstablished(n)

NextSuites ==
    \/ \E d \in Directions, data \in SuitePlaintexts : Records < MaxSuiteRecords /\ EncryptData(d, data)
    \/ \E d \in Directions, data \in SuitePlaintexts : Records < MaxSuiteRecords /\ DecryptPeer(d, data)

SpecSuites == InitSuites /\ [][NextSuites]_vars

\* ---- SpecNonce: encrypts and decrypts interleaved on the engines of a GCM
\* session ----
MaxNonceRecords == 3

InitNonce == StartsEstablished(GCM_SHA384)

NextNonce ==
    \/ \E d \in Directions, data \in SessionPlaintexts : Records < MaxNonceRecords /\ EncryptData(d, data)
    \/ \E d \in Directions, data \in SessionPlaintexts : Records < MaxNonceRecords /\ DecryptPeer(d, data)
    \/ \E d \in Directions, data \in SessionPlaintexts : Records < MaxNonceRecords /\ DecryptSkipped(d, data)
    \/ \E d \in Directions : Records < MaxNonceRecords /\ DecryptJunk(d)
    \/ \E d \in Directions, data \in SessionPlaintexts :
           Records < MaxNonceRecords /\ DecryptLastNonce(d, data)

SpecNonce == InitNonce /\ [][NextNonce]_vars

\* ---- SpecStores: a session from its construction, its key exchange stores filled
\* by messages and by the accessors ----
MaxStoresHistory == 3

StoresPackets ==
    ServerKeyExchanges
        \cup {ServerDHParams(Lit(<<23>>), Lit(<<3>>), Lit(<<7>>)),
              ClientKeyExchange("DH", Lit(<<9>>)),
              ClientKeyExchange("ECDH", Lit(<<4, 3, 4>>))}

NextStores ==
    \/ \E pkt \in StoresPackets : Len(history) < MaxStoresHistory /\ Insert(pkt)
    \/ \E private \in PrivateArguments, draw \in KeypairDraws : GetClientDhPubkey(private, draw)
    \/ \E private \in PrivateArguments, draw \in KeypairDraws : GetClientEcdhPubkey(private, draw)

SpecStores == Init /\ [][NextStores]_vars

\* ---- SpecMode: a session from its construction, its role set between the
\* messages ----
MaxModeHistory == 3

ModePackets == {TheClientHello, ServerHelloOf(RC4_SHA)}

NextMode ==
    \/ \E client_ \in ModeArguments, server_ \in ModeArguments : SetMode(client_, server_)
    \/ \E pkt \in ModePackets : Len(history) < MaxModeHistory /\ Insert(pkt)

SpecMode == Init /\ [][NextMode]_vars

\* ---- SpecRekey: an established session that is handed the messages of a further
\* handshake ----
NextRekey ==
    \E pkt \in RekeyPackets :
        Len(history) < Len(Established(RC4_SHA).history) + MaxRekeyHistory /\ Insert(pkt)

SpecRekey == InitRecord /\ [][NextRekey]_vars

\* ---- SpecCert: a session from its construction, handed ServerHellos and
\* certificate lists ----
MaxCertHistory == 3

LeafCertificate == Certificate(ServerKey)

IssuerCertificate == Certificate(ServerKey + 1)

DSS_SHA == <<TLS_1_0, 50>>

CertPackets ==
    {ServerHelloOf(RC4_SHA), ServerHelloOf(DSS_SHA), ServerHelloOf(UnknownSuite),
     CertificateList(<<LeafCertificate, IssuerCertificate>>),
     CertificateList(<<IssuerCertificate>>),
     CertificateList(<<>>)}

NextCert ==
    \/ \E pkt \in CertPackets : Len(history) < MaxCertHistory /\ Insert(pkt)
    \/ LoadRsaKeys

SpecCert == Init /\ [][NextCert]_vars

\* ---- SpecHello: a session from its construction, handed ClientHellos between
\* the messages and calls that set a premaster secret ----
MaxHelloHistory == 4

\* a ClientHello of another version that offers a session id
ResumingClientHello ==
    [ClientHello(TLS_1_0, 3, Run(3, 28)) EXCEPT !.session_id = Run(9, 32)]

HelloPackets ==
    {TheClientHello, ResumingClientHello, ServerHelloOf(RC4_SHA),
     ServerDHParams(Lit(<<23>>), Lit(<<2>>), Lit(<<5>>))}

NextHello ==
    \/ \E pkt \in HelloPackets : Len(history) < MaxHelloHistory /\ Insert(pkt)
    \/ \E private \in PrivateArguments, draw \in KeypairDraws : GetClientDhPubkey(private, draw)

SpecHello == Init /\ [][NextHello]_vars

\* ---- SpecRenew: an established session that exchanges records, negotiates again
\* and resumes ----
MaxRenewHistory == 2

MaxRenewRecords == 2

RenewNegotiations == {RC4_SHA, GCM_SHA384}

RenewPackets == {ServerHelloOf(n) : n \in RenewNegotiations} \cup {RsaClientKeyExchange}

RenewMasterSecret == Blob([k |-> "urandom", id |-> <<4>>], 48)

InitRenew == \E n \in RenewNegotiations : StartsEstablished(n)

NextRenew ==
    \/ \E pkt \in RenewPackets :
           Len(history) < Len(Established(RC4_SHA).history) + MaxRenewHistory /\ Insert(pkt)
    \/ ResumeSession(RenewMasterSecret)
    \/ \E d \in Directions, data \in SessionPlaintexts : Records < MaxRenewRecords /\ EncryptData(d, data)
    \/ \E d \in Directions, data \in SessionPlaintexts : Records < MaxRenewRecords /\ DecryptPeer(d, data)

SpecRenew == InitRenew /\ [][NextRenew]_vars

(***************************************************************************)
(* The claims.                                                             *)
(***************************************************************************)
EngineOf(d) == CtxOf(Session, d).crypto_ctx

\* C1: in a session that starts with both sequence numbers 0, a direction that has
\* completed N encrypt_data calls and no decrypt has sequence number N, in STREAM,
\* CBC and GCM mode and whatever the other direction did; with a GCM engine its
\* explicit nonce counter is N as well.
C1_SequenceCountsEncrypts ==
    \A d \in Directions :
        decrypts[d] = 0 =>
            /\ CtxOf(Session, d).sequence = BigOfNat(encrypts[d])
            /\ CtxOf(Session, d).nonce = BigOfNat(gcm_encrypts[d])
            /\ EngineOf(d).t = "GCMCryptoContext" => gcm_encrypts[d] = encrypts[d]

\* a GCM direction that encrypted twice
C1_Witness ==
    /\ EngineOf("client").t = "GCMCryptoContext"
    /\ encrypts["client"] = 2
    /\ client_ctx.nonce = BigOfNat(2)

\* C2: decrypt of a GCM record whose tag does not verify raises an error to the
\* caller and returns no bytes.
C2_GcmTamperReported ==
    (/\ last.op = "decrypt"
     /\ EngineOf(last.who).t = "GCMCryptoContext"
     /\ ~last.intact)
    => last.err # ""

\* C3 as stated: decrypt of the record the peer's encrypt_data made for a plaintext
\* returns exactly that plaintext.
C3_RoundTripExact ==
    (last.op = "decrypt" /\ last.intact) => (last.err = "" /\ last.out = last.pt)

\* where the plaintext starts in what decrypt returns
PlaintextOffset(d) ==
    IF EngineOf(d).t = "GCMCryptoContext" THEN GCM_EXPLICIT_IV_SIZE
    ELSE IF EngineOf(d).t = "CBCCryptoContext" /\ requires_iv THEN EngineOf(d).block_size
    ELSE 0

\* C3 as the code has it: decrypt of the record the peer's encrypt_data made for a
\* plaintext returns the framed cleartext, which is longer than the plaintext and
\* holds it at a fixed offset: 0 behind nothing in STREAM and implicit-IV CBC, one
\* block behind the explicit IV in CBC, 8 bytes behind the explicit nonce in GCM.
C3_RoundTripFramed ==
    (last.op = "decrypt" /\ last.intact) =>
        /\ last.err = ""
        /\ Slice(last.out, PlaintextOffset(last.who),
                 PlaintextOffset(last.who) + BLen(last.pt)) = last.pt
        /\ BLen(last.out) > PlaintextOffset(last.who) + BLen(last.pt)

\* a two-block plaintext came back from an explicit-IV CBC engine
C3_Witness ==
    /\ last.op = "decrypt"
    /\ last.intact
    /\ EngineOf(last.who).t = "CBCCryptoContext"
    /\ requires_iv
    /\ BLen(last.pt) = 32

\* a key derivation has just been processed without error
JustDerived ==
    /\ last.op = "insert"
    /\ last.err = ""
    /\ \/ last.who = "ClientKeyExchange"
       \/ last.who = "ServerHello" /\ negotiated.resumption

\* C4: after every ClientKeyExchange and every resumed ServerHello, both directions'
\* key stores are the ones of the security parameters just computed, also when an
\* earlier derivation had installed keys.
C4_KeysReplaced ==
    JustDerived =>
        /\ sec_params # NoneRec
        /\ client_ctx.sym_keystore = sec_params.client_keystore
        /\ server_ctx.sym_keystore = sec_params.server_keystore

\* C5: a ServerHello whose cipher suite is not registered raises nothing and warns.
C5_UnknownSuiteWarns ==
    (/\ last.op = "insert"
     /\ last.who = "ServerHello"
     /\ negotiated.ciphersuite \notin DOMAIN crypto_params)
    => (last.err = "" /\ last.warn # "")

\* C6: whenever the session holds security parameters their master secret is 48
\* bytes long, also after a resumption.
C6_MasterSecret48 ==
    sec_params # NoneRec => BLen(sec_params.master_secret) = 48

\* the session's master secret is the one a key derivation computed
Derived ==
    /\ sec_params # NoneRec
    /\ master_secret = sec_params.master_secret

\* C7 as stated: once a key derivation has computed the session's master secret, no
\* operation changes it.
C7_MasterSecretFrozen ==
    [][Derived => master_secret' = master_secret]_vars

\* C7 as the code has it: once a key derivation has computed the session's master
\* secret, only the processing of a ClientKeyExchange (which derives anew) and
\* resume_session (which stores the caller's) change it; ClientHello, ServerHello,
\* also a resumed one, and record encryption and decryption leave it as it is.
C7_MasterSecretChanges ==
    [][(Derived /\ master_secret' # master_secret) =>
          \/ last'.op = "resume_session"
          \/ last'.op = "insert" /\ last'.who = "ClientKeyExchange"]_vars

\* resume_session replaced a master secret that a derivation had computed
C7_Witness ==
    /\ last.op = "resume_session"
    /\ sec_params # NoneRec
    /\ BLen(sec_params.master_secret) = 48
    /\ sec_params.master_secret \notin MasterSecrets
    /\ master_secret # sec_params.master_secret

\* C8: encrypt_data or decrypt in a session that has no security parameters yet
\* raises an error, returns nothing and leaves both contexts (sequence numbers,
\* nonce counters, key stores) as they were.
C8_NoEngineNoChange ==
    [][(sec_params = NoneRec /\ last'.op \in {"encrypt_data", "decrypt"}) =>
          /\ last'.err = "AttributeError"
          /\ last'.out = <<>>
          /\ client_ctx' = client_ctx
          /\ server_ctx' = server_ctx
          /\ sec_params' = NoneRec]_vars

\* a decrypt was refused after a ServerHello and before any derivation
C8_Witness ==
    /\ last.op = "decrypt"
    /\ last.err = "AttributeError"
    /\ sec_params = NoneRec
    /\ negotiated.version = TLS_1_0
    /\ client_ctx.sequence = <<>>
    /\ client_ctx.sym_keystore = EmptySymKeyStore

\* sp, key stores aside, is what derivation from master secret ms gives
FromMasterSecret(sp, ms) ==
    /\ sp # NoneRec
    /\ sp.master_secret = ms
    /\ sp.client_random = client_ctx.random
    /\ sp.server_random = server_ctx.random
    /\ sp.cipher_suite = negotiated.ciphersuite
    /\ sp.prf = prf

\* both directions have a key store and an engine
BothEngines ==
    /\ client_ctx.sym_keystore.t = "CipherKeyStore"
    /\ server_ctx.sym_keystore.t = "CipherKeyStore"
    /\ client_ctx.crypto_ctx # NoneRec
    /\ server_ctx.crypto_ctx # NoneRec

\* C9: after a ClientKeyExchange processed without error, whichever its parameters,
\* the security parameters are the ones derived from the current premaster secret
\* and randoms, and both directions have a key store and an engine.
C9_ClientKexDerives ==
    (last.op = "insert" /\ last.who = "ClientKeyExchange" /\ last.err = "") =>
        /\ sec_params # NoneRec
        /\ sec_params.pms = premaster_secret
        /\ generate_master_secret(sec_params, premaster_secret, client_ctx.random, server_ctx.random).err = ""
        /\ FromMasterSecret(sec_params,
               generate_master_secret(sec_params, premaster_secret, client_ctx.random, server_ctx.random).v)
        /\ BothEngines

\* a DH ClientKeyExchange built the client's key exchange store and derived
C9_Witness ==
    /\ last.op = "insert"
    /\ last.who = "ClientKeyExchange"
    /\ last.err = ""
    /\ client_ctx.kex_keystore.t = "DHKeyStore"
    /\ history[Len(history)].params = "DH"
    /\ BothEngines

\* C10: a ServerHello processed with the resumption flag set, and without error,
\* leaves security parameters derived from the stored master secret and the new
\* randoms and an engine in both directions; processed without the flag it leaves
\* the security parameters and both engines as they were.
C10_ServerHelloDerivesIffResumed ==
    [][(last'.op = "insert" /\ last'.who = "ServerHello") =>
          IF negotiated.resumption
          THEN last'.err = "" => (FromMasterSecret(sec_params, master_secret) /\ BothEngines)'
          ELSE /\ sec_params' = sec_params
               /\ client_ctx'.crypto_ctx = client_ctx.crypto_ctx
               /\ server_ctx'.crypto_ctx = server_ctx.crypto_ctx]_vars

\* a resumed ServerHello derived, no ClientKeyExchange seen
C10_Witness ==
    /\ last.op = "insert"
    /\ last.who = "ServerHello"
    /\ last.err = ""
    /\ negotiated.resumption
    /\ Len(history) = 2
    /\ sec_params # NoneRec
    /\ BothEngines

\* the packet the step has inserted
Inserted == history'[Len(history')]

\* the step is insert of a ClientKeyExchange
InsertsClientKex ==
    /\ last'.op = "insert"
    /\ last'.who = "ClientKeyExchange"
    /\ Len(history') = Len(history) + 1

\* the step leaves security parameters, master secret, key stores and engines alone
DerivesNothing ==
    /\ sec_params' = sec_params
    /\ master_secret' = master_secret
    /\ client_ctx'.sym_keystore = client_ctx.sym_keystore
    /\ server_ctx'.sym_keystore = server_ctx.sym_keystore
    /\ client_ctx'.crypto_ctx = client_ctx.crypto_ctx
    /\ server_ctx'.crypto_ctx = server_ctx.crypto_ctx

\* C11: a ClientKeyExchange with DH parameters while the server's key exchange
\* store is not a DH store, or with ECDH parameters while it is not an ECDH store,
\* raises an error and derives no keys.
C11_KexMismatchFatal ==
    [][(/\ InsertsClientKex
        /\ \/ Inserted.params = "DH" /\ server_ctx.kex_keystore.t # "DHKeyStore"
           \/ Inserted.params = "ECDH" /\ server_ctx.kex_keystore.t # "ECDHKeyStore")
       => (last'.err # "" /\ DerivesNothing)]_vars

\* both hellos were processed: the session has its PRF, both randoms and a
\* registered cipher suite
HellosDone ==
    /\ prf # NoneRec
    /\ client_ctx.random # None
    /\ server_ctx.random # None
    /\ negotiated.ciphersuite \in DOMAIN crypto_params

\* C12: when the server's private key is loaded and the RSA decryption of the
\* encrypted premaster secret fails, processing the ClientKeyExchange does not
\* raise, the premaster secret is still 48 bytes and security parameters are derived.
C12_RsaFailureSwallowed ==
    [][(/\ InsertsClientKex
        /\ HellosDone
        /\ Inserted.params = "RSA"
        /\ server_ctx.asym_keystore.private # 0
        /\ pkcs1_decrypt(server_ctx.asym_keystore.private, Inserted.data) = None)
       => (/\ last'.err = ""
           /\ premaster_secret' # None
           /\ BLen(premaster_secret') = 48
           /\ sec_params' # NoneRec
           /\ sec_params'.pms = premaster_secret')]_vars

\* C13: after get_encrypted_pms, get_client_dh_pubkey or get_client_ecdh_pubkey has
\* returned, the premaster secret of the session is the secret that belongs to the
\* payload returned: the payload is the encryption of the premaster secret (and the
\* premaster secret is the pms argument when one was given), or the public key of a
\* private key x whose shared secret with the server's public key is the premaster
\* secret.
C13_PmsMatchesPayload ==
    /\ (last.op = "get_encrypted_pms" /\ last.err = "") =>
           /\ last.out = pkcs1_encrypt(server_ctx.asym_keystore.public, premaster_secret)
           /\ last.pt # None => premaster_secret = last.pt
    /\ (last.op = "get_client_dh_pubkey" /\ last.err = "") =>
           \E x \in 0..(NatOfBig(server_ctx.kex_keystore.p) - 1) :
               /\ last.out = int_to_str(DHKeyStore_new_keypair(server_ctx.kex_keystore.g,
                                                                server_ctx.kex_keystore.p, x).public)
               /\ premaster_secret =
                      lstrip_zeros(int_to_str(BigOfNat(pow(NatOfBig(server_ctx.kex_keystore.public), x,
                                                           NatOfBig(server_ctx.kex_keystore.p)))))
    /\ (last.op = "get_client_ecdh_pubkey" /\ last.err = "") =>
           \E k \in 1..(EC_FIELD - 1) :
               /\ last.out = point_to_ansi_str(ec_Keypair(server_ctx.kex_keystore.curve, k).pub)
               /\ premaster_secret =
                      int_to_str(ec_mul(k, server_ctx.kex_keystore.curve, server_ctx.kex_keystore.public).x)

\* an accessor step and what it must leave alone when it fails
KexStateUnchanged ==
    /\ premaster_secret' = premaster_secret
    /\ encrypted_premaster_secret' = encrypted_premaster_secret
    /\ client_ctx'.kex_keystore = client_ctx.kex_keystore
    /\ server_ctx'.kex_keystore = server_ctx.kex_keystore

\* C14: get_encrypted_pms without a server public key, get_client_dh_pubkey without
\* a DH server store, get_client_ecdh_pubkey without an ECDH server store or on an
\* unknown curve, and get_client_signed_handshake_hash without a client private key
\* raise an error and leave premaster secret, encrypted premaster secret and both
\* key exchange stores unchanged.
C14_AccessorPrerequisites ==
    [][(\/ last'.op = "get_encrypted_pms" /\ server_ctx.asym_keystore.public = 0
        \/ last'.op = "get_client_dh_pubkey" /\ server_ctx.kex_keystore.t # "DHKeyStore"
        \/ last'.op = "get_client_ecdh_pubkey" /\ server_ctx.kex_keystore.t # "ECDHKeyStore"
        \/ last'.op = "get_client_ecdh_pubkey" /\ server_ctx.kex_keystore = ECDHKeyStore("None", server_ctx.kex_keystore.public)
        \/ last'.op = "get_client_signed_handshake_hash" /\ client_ctx.asym_keystore.private = 0)
       => (last'.err # "" /\ KexStateUnchanged)]_vars

\* get_client_ecdh_pubkey has failed on a server store whose curve is unknown, in a
\* session that has a premaster secret
C14_Witness ==
    /\ last.op = "get_client_ecdh_pubkey"
    /\ last.err = "RuntimeError"
    /\ server_ctx.kex_keystore.t = "ECDHKeyStore"
    /\ server_ctx.kex_keystore.unknown_curve
    /\ premaster_secret # None

\* the step is a call on the second session
ByOther ==
    last'.op \in {"other.insert", "other.load_rsa_keys", "other.get_client_signed_handshake_hash"}

\* C15: two sessions share no mutable state.  No call on one session changes what
\* a call on the other session returns: the signature that
\* get_client_signed_handshake_hash (default hash argument) would return for a
\* session is the same before and after any call on the other session.
C15_SessionsIndependent ==
    [][/\ ~ByOther =>
             get_client_signed_handshake_hash(other', SHA256_default').v
                 = get_client_signed_handshake_hash(other, SHA256_default).v
       /\ ByOther =>
             get_client_signed_handshake_hash(Session', SHA256_default').v
                 = get_client_signed_handshake_hash(Session, SHA256_default).v]_vars

\* a ClientKeyExchange has been processed without error
ClientKexProcessed ==
    /\ sec_params # NoneRec
    /\ \E i \in 1..Len(history) : history[i].kind = "ClientKeyExchange"

\* C16: after a ClientKeyExchange has been processed no operation changes the
\* negotiated version, cipher suite, key exchange, signature algorithm, encryption
\* tuple, MAC or compression; only resume_session changes the negotiated record,
\* and only its resumption flag.
C16_NegotiatedFrozen ==
    [][ClientKexProcessed =>
           /\ [negotiated' EXCEPT !.resumption = negotiated.resumption] = negotiated
           /\ negotiated'.resumption # negotiated.resumption => last'.op = "resume_session"]_vars

\* C17: decrypt of a STREAM or CBC record whose MAC does not match the MAC computed
\* over the decrypted plaintext raises an error to the caller and is not returned
\* as a normal result.
C17_MacMismatchReported ==
    (/\ last.op = "decrypt"
     /\ EngineOf(last.who).t \in {"StreamCryptoContext", "CBCCryptoContext"}
     /\ ~last.intact)
    => last.err # ""

\* C18: the explicit nonce counter of a direction never decreases: after any GCM
\* encrypt or decrypt on the direction it is not smaller than before.
C18_NonceMonotonic ==
    [][\A d \in Directions :
           EngineOf(d).t = "GCMCryptoContext" =>
               ~BigLess(CtxOf(Session, d).nonce', CtxOf(Session, d).nonce)]_vars

\* the arguments the security parameters cannot be built from
BadRandom(random) == random # None /\ BLen(random) # 32

BadSecParamArguments ==
    \/ negotiated.ciphersuite \notin DOMAIN crypto_params
    \/ BadRandom(client_ctx.random)
    \/ BadRandom(server_ctx.random)

\* C19: building security parameters with a client or server random that is not 32
\* bytes long, or with an unregistered cipher suite, fails with an error and yields
\* no security parameters; a ClientKeyExchange processed with such arguments raises
\* and leaves the session's security parameters, master secret, symmetric key
\* stores and crypto engines as they were.
C19_BadSecParamsChangeNothing ==
    [][(InsertsClientKex /\ BadSecParamArguments) =>
           /\ from_pre_master_secret(prf, negotiated.ciphersuite, premaster_secret,
                                     client_ctx.random, server_ctx.random).err
                  \in {"RuntimeError", "ValueError", "TypeError"}
           /\ from_pre_master_secret(prf, negotiated.ciphersuite, premaster_secret,
                                     client_ctx.random, server_ctx.random).v = NoneRec
           /\ last'.err # ""
           /\ DerivesNothing]_vars

\* an established session, with keys and engines, whose ClientKeyExchange failed on
\* a client random of 31 bytes
C19_Witness ==
    /\ last.op = "insert"
    /\ last.who = "ClientKeyExchange"
    /\ last.err = "ValueError"
    /\ BLen(client_ctx.random) = 31
    /\ sec_params # NoneRec
    /\ client_ctx.crypto_ctx # NoneRec

\* the step is insert of a ServerHello
InsertsServerHello ==
    /\ last'.op = "insert"
    /\ last'.who = "ServerHello"
    /\ Len(history') = Len(history) + 1

\* C20: the session's PRF never has a version below TLS 1.2 together with a digest
\* the cipher suite named; a ServerHello that pairs a version below TLS 1.2 with a
\* suite that names a PRF digest raises and leaves the PRF as it was; the PRF a
\* TLS 1.2 ServerHello installs has the digest SHA-256 unless the suite names one.
C20_PrfDigestOnlyFrom12 ==
    /\ [](prf # NoneRec => (prf.tls_version < TLS_1_2 => prf.digest = "SHA256"))
    /\ [][InsertsServerHello =>
             Bind(Inserted, LAMBDA hello :
             Bind(IF hello.cipher_suite \in DOMAIN crypto_params
                  THEN crypto_params[hello.cipher_suite].prf ELSE "None", LAMBDA named :
                 /\ (hello.version < TLS_1_2 /\ named # "None") =>
                        (last'.err = "ValueError" /\ prf' = prf)
                 /\ (hello.version = TLS_1_2 /\ last'.err = "") =>
                        /\ prf'.tls_version = TLS_1_2
                        /\ prf'.digest = IF named = "None" THEN "SHA256" ELSE named))]_vars

\* a session that had its PRF from a TLS 1.0 ServerHello, took the SHA-256 PRF of a
\* TLS 1.2 ServerHello and was then handed a TLS 1.1 ServerHello with a GCM suite
C20_Witness ==
    /\ last.op = "insert"
    /\ last.who = "ServerHello"
    /\ last.err = "ValueError"
    /\ history[Len(history)].version = TLS_1_1
    /\ negotiated.ciphersuite = 49200
    /\ prf # NoneRec
    /\ prf.tls_version = TLS_1_2
    /\ prf.digest = "SHA256"
    /\ history[1 + Len(Established(RC4_SHA).history)].cipher_suite = 5

\* the registry entry the session's security parameters were built from
Descriptor == crypto_params[sec_params.cipher_suite]

\* C21: derived security parameters have MAC key length 0 and IV length 4 for a GCM
\* suite, MAC key length = digest size of the suite's hash and IV length = block
\* size of the cipher for a CBC suite, MAC key length = digest size and IV length 0
\* for a STREAM suite; the cipher key length is the key length of the registry
\* entry in all three; any other mode is rejected with an error.
C21_SecParamSizes ==
    /\ sec_params # NoneRec =>
           /\ sec_params.cipher_mode_name \in {"GCM", "CBC", "STREAM"}
           /\ sec_params.cipher_key_length = Descriptor.cipher.key_len
           /\ sec_params.cipher_mode_name = "GCM" =>
                  (sec_params.mac_key_length = 0 /\ sec_params.iv_length = 4)
           /\ sec_params.cipher_mode_name = "CBC" =>
                  /\ sec_params.mac_key_length = digest_size(Descriptor.hash.type)
                  /\ sec_params.iv_length = block_size(Descriptor.cipher.type)
           /\ sec_params.cipher_mode_name = "STREAM" =>
                  /\ sec_params.mac_key_length = digest_size(Descriptor.hash.type)
                  /\ sec_params.iv_length = 0
    /\ negotiated.ciphersuite \in DOMAIN crypto_params =>
           set_sec_param_sizes("CCM", crypto_params[negotiated.ciphersuite], 16).err = "ValueError"

\* a session with the security parameters of a GCM suite that has sent a record
C21_Witness ==
    /\ sec_params # NoneRec
    /\ sec_params.cipher_mode_name = "GCM"
    /\ sec_params.iv_length = 4
    /\ sec_params.cipher_key_length = 32
    /\ last.op = "encrypt_data"
    /\ last.err = ""

\* the key-expansion block of the session's security parameters, and the key
\* stores init_keys cuts from it
KeyBlockLength ==
    2 * (sec_params.mac_key_length + sec_params.cipher_key_length + sec_params.iv_length)

KeyBlock ==
    get_bytes(sec_params.prf, sec_params.master_secret, "key expansion",
              Cat(server_ctx.random, client_ctx.random), KeyBlockLength).v

KeyStoresCut == init_keys(sec_params, client_ctx.random, server_ctx.random).v

\* C22: the key-expansion block is requested with 2 * (macLen + keyLen + ivLen)
\* bytes and the seed server random || client random, and is cut into client MAC
\* key, server MAC key, client cipher key, server cipher key, client IV, server IV
\* of lengths macLen, macLen, keyLen, keyLen, ivLen, ivLen: six consecutive slices
\* that cover the block exactly, for every registered suite.
C22_KeyBlockSlices ==
    sec_params # NoneRec =>
        /\ BLen(KeyBlock) = KeyBlockLength
        /\ BLen(KeyStoresCut.client_keystore.hmac) = sec_params.mac_key_length
        /\ BLen(KeyStoresCut.server_keystore.hmac) = sec_params.mac_key_length
        /\ BLen(KeyStoresCut.client_keystore.key) = sec_params.cipher_key_length
        /\ BLen(KeyStoresCut.server_keystore.key) = sec_params.cipher_key_length
        /\ BLen(KeyStoresCut.client_keystore.iv) = sec_params.iv_length
        /\ BLen(KeyStoresCut.server_keystore.iv) = sec_params.iv_length
        /\ Cat(Cat(Cat(Cat(Cat(KeyStoresCut.client_keystore.hmac,
                                KeyStoresCut.server_keystore.hmac),
                            KeyStoresCut.client_keystore.key),
                        KeyStoresCut.server_keystore.key),
                    KeyStoresCut.client_keystore.iv),
                KeyStoresCut.server_keystore.iv) = KeyBlock
        /\ ~requires_iv =>
               /\ sec_params.client_keystore = KeyStoresCut.client_keystore
               /\ sec_params.server_keystore = KeyStoresCut.server_keystore

\* a TLS 1.0 session of a CBC suite whose three lengths differ: 20-byte MAC keys,
\* 32-byte cipher keys, 16-byte IVs, cut from a block of 136 bytes
C22_Witness ==
    /\ sec_params # NoneRec
    /\ ~requires_iv
    /\ BLen(client_ctx.sym_keystore.hmac) = 20
    /\ BLen(server_ctx.sym_keystore.key) = 32
    /\ BLen(server_ctx.sym_keystore.iv) = 16
    /\ BLen(KeyBlock) = 136
    /\ last.op = "encrypt_data"
    /\ last.err = ""

\* the CBC container of the record the last encrypt_data framed: plaintext and MAC
\* length, negotiated block size, and the padding __pad computes for them
PlainAndMacLength == BLen(last.pt) + digest_size(sec_params.hash_type)

FramedPadding ==
    cbc_pad(last.pt, HMAC(CtxOf(Session, last.who).sym_keystore.hmac, last.pt, sec_params.hash_type))

ClaimedPaddingLength ==
    (sec_params.block_size - ((PlainAndMacLength + 1) % sec_params.block_size))
        % sec_params.block_size

\* C23: for a CBC container with plaintext + MAC length L and negotiated cipher
\* block size B the padding length is (B - (L + 1) mod B) mod B, every padding
\* byte equals that length, and the total framed length is a multiple of B, for
\* every registered CBC suite.
C23_CbcPadding ==
    (/\ last.op = "encrypt_data"
     /\ last.err = ""
     /\ EngineOf(last.who).t = "CBCCryptoContext"
     /\ sec_params.block_size > 0)
    => /\ BLen(FramedPadding) = ClaimedPaddingLength
       /\ FramedPadding = Run(ClaimedPaddingLength, ClaimedPaddingLength)
       /\ BLen(last.out) % sec_params.block_size = 0

\* the step is a decrypt on a direction with a GCM engine
GcmDecrypts ==
    /\ last'.op = "decrypt"
    /\ EngineOf(last'.who).t = "GCMCryptoContext"

\* C24: after a GCM decrypt of a record whose first 8 bytes encode v the explicit
\* nonce counter of the direction is v, whether it was larger or smaller before,
\* and the sequence number of the direction has increased by exactly 1.
C24_DecryptTakesWireNonce ==
    [][\A d \in Directions :
           (GcmDecrypts /\ last'.who = d) =>
               /\ last'.err = ""
               /\ CtxOf(Session, d).nonce' = UnpackQ(Take(last'.out, GCM_EXPLICIT_IV_SIZE)).v
               /\ CtxOf(Session, d).sequence' = BigInc(CtxOf(Session, d).sequence)]_vars

\* a direction whose counter was 1 after its encrypt and that then took a record
\* with the explicit nonce 0
C24_Witness ==
    /\ last.op = "decrypt"
    /\ EngineOf(last.who).t = "GCMCryptoContext"
    /\ last.err = ""
    /\ encrypts[last.who] = 1
    /\ decrypts[last.who] = 1
    /\ CtxOf(Session, last.who).nonce = <<>>
    /\ CtxOf(Session, last.who).sequence = <<2>>

\* the step is an encrypt_data, a decrypt of the peer's record, on direction d with
\* a CBC engine under TLS 1.1 or later
CbcExplicitIvEncrypts(d) ==
    /\ last'.op = "encrypt_data"
    /\ last'.who = d
    /\ EngineOf(d).t = "CBCCryptoContext"
    /\ requires_iv

CbcExplicitIvDecrypts(d) ==
    /\ last'.op = "decrypt"
    /\ last'.who = d
    /\ last'.intact
    /\ EngineOf(d).t = "CBCCryptoContext"
    /\ requires_iv

\* the IV the cipher that made the record was initialised with, the first block
\* of what it encrypted, and the IV __init_ciphers gives the ciphers of direction d
IvOfRecord(record) == record[1].b.iv

FirstPlainBlock(record) == Take(record[1].b.pt, sec_params.block_size)

IvOfInit(d) == cbc_init_ciphers(EngineOf(d), CtxOf(Session, d).sym_keystore).v.dec_cipher.iv

\* C25 as stated: in CBC mode under TLS 1.1 or later the cipher is initialised
\* again before every encrypt and every decrypt, with the explicit IV of the record
\* as its initialisation vector: a fresh random IV when encrypting, the first block
\* of the peer's record when decrypting.
C25_CipherIvIsExplicitIv ==
    [][\A d \in Directions :
           /\ CbcExplicitIvEncrypts(d) =>
                  /\ last'.err = ""
                  /\ IvOfRecord(last'.out) = urandom(sec_params.block_size, IvName(Session, d))
           /\ CbcExplicitIvDecrypts(d) =>
                  /\ last'.err = ""
                  /\ IvOfInit(d) = Take(PeerRecord(Session, d, last'.pt).v, sec_params.block_size)]_vars

\* C25 as the code has it: in CBC mode under TLS 1.1 or later the cipher is
\* initialised again before every encrypt and every decrypt, always with the
\* all-zero IV the engine wrote into the key store; the fresh random explicit IV
\* is the first block of what is encrypted, and decrypt returns the peer's
\* explicit IV as the first block of its cleartext.
C25_ZeroIvAndExplicitIvBlock ==
    [][\A d \in Directions :
           /\ CbcExplicitIvEncrypts(d) =>
                  /\ last'.err = ""
                  /\ IvOfRecord(last'.out) = Run(0, sec_params.block_size)
                  /\ FirstPlainBlock(last'.out) = urandom(sec_params.block_size, IvName(Session, d))
           /\ CbcExplicitIvDecrypts(d) =>
                  /\ last'.err = ""
                  /\ IvOfInit(d) = Run(0, sec_params.block_size)
                  /\ last'.out = PeerRecord(Session, d, last'.pt).v[1].b.pt
                  /\ Take(last'.out, sec_params.block_size)
                         = urandom(sec_params.block_size, <<3>> \o CtxOf(Session, d).sequence)]_vars

\* the second record a direction encrypted with a CBC engine under TLS 1.1
C25_Witness ==
    /\ last.op = "encrypt_data"
    /\ last.err = ""
    /\ EngineOf(last.who).t = "CBCCryptoContext"
    /\ requires_iv
    /\ encrypts[last.who] = 2
    /\ IvOfRecord(last.out) = Run(0, 16)

\* direction d has a CBC engine under TLS 1.0
CbcChained(d) ==
    /\ EngineOf(d) # NoneRec
    /\ EngineOf(d).t = "CBCCryptoContext"
    /\ ~requires_iv

\* the key store the security parameters derived for direction d
DerivedKeyStore(d) ==
    IF d = "client" THEN sec_params.client_keystore ELSE sec_params.server_keystore

\* C26: in CBC mode under TLS 1.0 the encrypt and the decrypt cipher are
\* initialised once, when the engine is created, with the IV of the derived key
\* material, and no encrypt or decrypt initialises them again: each record starts
\* from the chaining state the previous record left, and the IV of the key store
\* stays as derived.
C26_CbcChainsAcrossRecords ==
    /\ [](\A d \in Directions :
             CbcChained(d) =>
                 /\ CtxOf(Session, d).sym_keystore.iv = DerivedKeyStore(d).iv
                 /\ encrypts[d] = 0 => EngineOf(d).enc_cipher.iv = DerivedKeyStore(d).iv
                 /\ decrypts[d] = 0 => EngineOf(d).dec_cipher.iv = DerivedKeyStore(d).iv)
    /\ [][\A d \in Directions :
             /\ (CbcChained(d) /\ last'.op = "encrypt_data" /\ last'.who = d) =>
                    /\ last'.err = ""
                    /\ IvOfRecord(last'.out) = EngineOf(d).enc_cipher.iv
                    /\ EngineOf(d).enc_cipher.iv' = Last(last'.out, sec_params.block_size)
                    /\ EngineOf(d).dec_cipher' = EngineOf(d).dec_cipher
             /\ (CbcChained(d) /\ last'.op = "decrypt" /\ last'.who = d /\ last'.intact) =>
                    /\ last'.err = ""
                    /\ EngineOf(d).dec_cipher.iv'
                           = Last(PeerRecord(Session, d, last'.pt).v, sec_params.block_size)
                    /\ EngineOf(d).enc_cipher' = EngineOf(d).enc_cipher]_vars

\* the second record of a TLS 1.0 CBC direction, encrypted from the last block of
\* the first
C26_Witness ==
    /\ last.op = "encrypt_data"
    /\ last.err = ""
    /\ CbcChained(last.who)
    /\ encrypts[last.who] = 2
    /\ IvOfRecord(last.out) # DerivedKeyStore(last.who).iv
    /\ CtxOf(Session, last.who).sym_keystore.iv = DerivedKeyStore(last.who).iv

\* direction d has a GCM engine
GcmEngine(d) ==
    /\ EngineOf(d) # NoneRec
    /\ EngineOf(d).t = "GCMCryptoContext"

\* the nonce GCM uses in direction d with the explicit part given: the salt of the
\* key store, then the explicit part
SaltedNonce(d, explicit) ==
    Cat(CtxOf(Session, d).sym_keystore.iv, explicit)

\* C27: a GCM encrypt performed when the explicit counter of the direction is c
\* uses the 12-byte nonce salt (4 bytes of the key store) || c as 8 bytes
\* big-endian, emits c as 8 bytes big-endian || ciphertext || 16-byte tag, and
\* only then increments the counter to c + 1; a GCM decrypt uses the nonce
\* salt || the 8 bytes read from the record.
C27_GcmNonceAndFraming ==
    [][\A d \in Directions :
         /\ (GcmEngine(d) /\ last'.op = "encrypt_data" /\ last'.who = d /\ last'.err = "") =>
                Bind(PackQ(CtxOf(Session, d).nonce).v, LAMBDA c :
                    /\ BLen(CtxOf(Session, d).sym_keystore.iv) = 4
                    /\ BLen(SaltedNonce(d, c)) = 12
                    /\ BLen(last'.out) = GCM_EXPLICIT_IV_SIZE + BLen(last'.pt) + GCM_TAG_SIZE
                    /\ Take(last'.out, GCM_EXPLICIT_IV_SIZE) = c
                    /\ Slice(last'.out, GCM_EXPLICIT_IV_SIZE, 0 - GCM_TAG_SIZE)
                           = gcm_encrypt_and_digest(
                                 [EngineOf(d).enc_cipher' EXCEPT !.iv = SaltedNonce(d, c)],
                                 <<>>, last'.pt).ciphertext
                    /\ EngineOf(d).enc_cipher.iv' = SaltedNonce(d, c)
                    /\ Last(last'.out, GCM_TAG_SIZE)[1].b.nonce = SaltedNonce(d, c)
                    /\ CtxOf(Session, d).nonce' = BigInc(CtxOf(Session, d).nonce))
         /\ (GcmEngine(d) /\ last'.op = "decrypt" /\ last'.who = d /\ last'.err = "") =>
                /\ BLen(Take(last'.out, GCM_EXPLICIT_IV_SIZE)) = GCM_EXPLICIT_IV_SIZE
                /\ EngineOf(d).dec_cipher.iv'
                       = SaltedNonce(d, Take(last'.out, GCM_EXPLICIT_IV_SIZE))]_vars

\* a GCM record made when the counter was 1: it starts with 1 as 8 bytes and the
\* counter is 2 afterwards
C27_Witness ==
    /\ last.op = "encrypt_data"
    /\ last.err = ""
    /\ GcmEngine(last.who)
    /\ Take(last.out, GCM_EXPLICIT_IV_SIZE) = PackQ(BigOfNat(1)).v
    /\ CtxOf(Session, last.who).nonce = BigOfNat(2)

\* length of the authenticated header: sequence, content type, version, length
HeaderLength == 8 + 1 + 2 + 2

\* the MAC inside a STREAM or CBC record of direction d made for plaintext data
MacOfRecord(d, record, data) ==
    Bind(IF EngineOf(d).t = "CBCCryptoContext" /\ requires_iv THEN sec_params.block_size ELSE 0,
         LAMBDA skipped :
             Slice(record[1].b.pt, skipped + BLen(data),
                   skipped + BLen(data) + digest_size(sec_params.hash_type)))

\* the authenticated header of a record of direction d made for plaintext data: the
\* start of the MAC input in STREAM and CBC, the additional data of the tag in GCM
HeaderOfRecord(d, record, data) ==
    IF EngineOf(d).t = "GCMCryptoContext"
    THEN Last(record, GCM_TAG_SIZE)[1].b.aad
    ELSE Take(MacOfRecord(d, record, data)[1].b.msg, HeaderLength)

\* C28: the authenticated header of the record an encrypt_data call produces
\* carries the sequence number of the direction as it was before the increment of
\* that call (k - 1 for the k-th record of a fresh direction), and its length
\* field is the length of the plaintext; a GCM decrypt builds the header with the
\* length of the record minus the 8-byte nonce and the 16-byte tag.
C28_HeaderSequenceAndLength ==
    [][\A d \in Directions :
         /\ (EngineOf(d) # NoneRec /\ last'.op = "encrypt_data" /\ last'.who = d /\ last'.err = "") =>
                Bind(HeaderOfRecord(d, last'.out, last'.pt), LAMBDA header :
                    /\ BLen(header) = HeaderLength
                    /\ Take(header, 8) = PackQ(CtxOf(Session, d).sequence).v
                    /\ decrypts[d] = 0 => Take(header, 8) = PackQ(BigOfNat(encrypts'[d] - 1)).v
                    /\ Last(header, 2) = PackN(BLen(last'.pt), 2)
                    /\ BLen(last'.out) > BLen(last'.pt))
         /\ (GcmEngine(d) /\ last'.op = "decrypt" /\ last'.who = d /\ last'.err = "") =>
                /\ last'.intact => last'.warn = ""
                /\ last'.warn = "" =>
                       Bind(HeaderOfRecord(d, last'.out, last'.pt), LAMBDA header :
                           /\ Take(header, 8) = PackQ(CtxOf(Session, d).sequence).v
                           /\ Last(header, 2)
                                  = PackN(BLen(last'.out) - GCM_EXPLICIT_IV_SIZE - GCM_TAG_SIZE, 2))]_vars

\* the second record of a fresh direction, with a MAC over a header that carries
\* sequence number 1 and the length of the plaintext
C28_Witness ==
    /\ last.op = "encrypt_data"
    /\ last.err = ""
    /\ EngineOf(last.who).t \in {"StreamCryptoContext", "CBCCryptoContext"}
    /\ encrypts[last.who] = 2
    /\ decrypts[last.who] = 0
    /\ BLen(last.pt) > 0
    /\ HeaderOfRecord(last.who, last.out, last.pt)
           = Cat(Cat(Cat(PackQ(BigOfNat(1)).v, PackN(APPLICATION_DATA, 1)), PackN(negotiated.version, 2)),
                 PackN(BLen(last.pt), 2))

\* the number of records direction d has encrypted and decrypted
RecordsProcessed(d) == encrypts[d] + decrypts[d]

\* the last call put engines into both directions
EnginesInstalled ==
    /\ last'.op = "insert"
    /\ last'.err = ""
    /\ \A d \in Directions :
           /\ EngineOf(d)' # NoneRec
           /\ EngineOf(d)' = CryptoContextFactory_new(sec_params', CtxOf(Session, d).sym_keystore',
                                                      requires_iv').v

\* C29: the record sequence number of a direction starts at 0, goes up by exactly
\* 1 for every record encrypted or decrypted in that direction, and no operation
\* lowers or resets it, a new handshake or a resumption that installs new engines
\* included: it always is the number of records the direction has processed since
\* the session was created.
C29_SequenceCountsRecords ==
    /\ [](\A d \in Directions : CtxOf(Session, d).sequence = BigOfNat(RecordsProcessed(d)))
    /\ [][\A d \in Directions :
             /\ CtxOf(Session, d).sequence' \in
                    {CtxOf(Session, d).sequence, BigInc(CtxOf(Session, d).sequence)}
             /\ CtxOf(Session, d).sequence' # CtxOf(Session, d).sequence =>
                    /\ last'.op \in {"encrypt_data", "decrypt"}
                    /\ last'.who = d
                    /\ last'.err = ""
             /\ EnginesInstalled => CtxOf(Session, d).sequence' = CtxOf(Session, d).sequence]_vars

\* new engines in a session whose client direction has processed two records
C29_Witness ==
    /\ last.op = "insert"
    /\ last.err = ""
    /\ RecordsProcessed("client") = 2
    /\ client_ctx.sequence = BigOfNat(2)
    /\ client_ctx.crypto_ctx
           = CryptoContextFactory_new(sec_params, client_ctx.sym_keystore, requires_iv).v
    /\ negotiated.resumption

\* the last call processed a certificate list
CertListProcessed ==
    /\ last'.op = "insert"
    /\ last'.who = "CertificateList"

\* the certificate list the last call processed
CertListOf(h) == h[Len(h)]

\* C30: when a CertificateList is processed for an RSA key exchange, an asymmetric
\* key store of the server that still is the empty placeholder is replaced by a
\* store built from the first certificate of the list, and a store the caller
\* populated keeps its keys and only has its certificate field set; when no
\* ServerHello has resolved a key exchange yet, or the signature of the suite is
\* DSA, the store is left as it is. Nothing else of the session changes.
C30_CertListFillsServerStore ==
    [][CertListProcessed =>
         /\ (negotiated.key_exchange = "RSA" /\ CertListOf(history').certificates # <<>>) =>
                Bind(CertListOf(history').certificates[1], LAMBDA leaf :
                    /\ last'.err = ""
                    /\ server_ctx.asym_keystore.t = "EmptyAsymKeystore" =>
                           /\ server_ctx.asym_keystore.t' = "RSAKeystore"
                           /\ server_ctx.asym_keystore.public' = leaf[1].b.key
                           /\ server_ctx.asym_keystore.certificate' = leaf
                    /\ server_ctx.asym_keystore.t # "EmptyAsymKeystore" =>
                           server_ctx.asym_keystore'
                               = [server_ctx.asym_keystore EXCEPT !.certificate = leaf])
         /\ (negotiated.key_exchange = "None" \/ negotiated.sig = "DSA") =>
                /\ last'.err = ""
                /\ server_ctx.asym_keystore' = server_ctx.asym_keystore
         /\ server_ctx' = [server_ctx EXCEPT !.asym_keystore = server_ctx.asym_keystore']
         /\ UNCHANGED <<client, server, client_ctx, requires_iv, sec_params, negotiated,
                        encrypted_premaster_secret, premaster_secret, master_secret, prf>>]_vars

\* a certificate list processed for an RSA key exchange in a session whose server
\* keys the caller loaded: the keys are the loaded ones, the certificate is the
\* leaf of the list
C30_Witness ==
    /\ last.op = "insert"
    /\ last.who = "CertificateList"
    /\ last.err = ""
    /\ negotiated.key_exchange = "RSA"
    /\ server_ctx.asym_keystore.private = ServerKey
    /\ server_ctx.asym_keystore.certificate = LeafCertificate
    /\ CertListOf(history).certificates = <<LeafCertificate, IssuerCertificate>>

\* the packet the last insert was handed
InsertedPacket == history'[Len(history')]

\* the last call processed ECDH parameters for a curve that TLS does not name or
\* that the curve registry does not have
UnusableCurveProcessed ==
    /\ last'.op = "insert"
    /\ last'.who = "ServerKeyExchange"
    /\ InsertedPacket.params = "ECDH"
    /\ \/ InsertedPacket.curve_name \notin DOMAIN TLS_ELLIPTIC_CURVES
       \/ TLS_ELLIPTIC_CURVES[InsertedPacket.curve_name] \notin EC_CURVE_REGISTRY

\* C31: a ServerKeyExchange with ECDH parameters for a curve that is not
\* recognised or not supported does not raise: the key exchange store of the
\* server records the raw point with the curve marked unknown; a
\* get_client_ecdh_pubkey after it fails with an error, computes no premaster
\* secret and leaves the premaster secret and the key exchange store of the
\* client as they were.
C31_UnusableCurveRecorded ==
    [][/\ UnusableCurveProcessed =>
             /\ last'.err = ""
             /\ server_ctx.kex_keystore.t = "EmptyKexKeystore" =>
                    /\ last'.warn # ""
                    /\ server_ctx.kex_keystore.t' = "ECDHKeyStore"
                    /\ server_ctx.kex_keystore.unknown_curve'
                    /\ server_ctx.kex_keystore.curve' = "None"
                    /\ server_ctx.kex_keystore.public'
                           = [curve |-> "None",
                              x |-> ansi_str_to_point(InsertedPacket.p).x,
                              y |-> ansi_str_to_point(InsertedPacket.p).y]
       /\ (/\ last'.op = "get_client_ecdh_pubkey"
           /\ server_ctx.kex_keystore.t = "ECDHKeyStore"
           /\ server_ctx.kex_keystore.unknown_curve) =>
             /\ last'.err # ""
             /\ last'.out = <<>>
             /\ premaster_secret' = premaster_secret
             /\ client_ctx' = client_ctx
             /\ server_ctx' = server_ctx]_vars

\* get_client_ecdh_pubkey has failed in a session whose server sent a point on a
\* curve the registry does not have
C31_Witness ==
    /\ last.op = "get_client_ecdh_pubkey"
    /\ last.err = "RuntimeError"
    /\ server_ctx.kex_keystore.t = "ECDHKeyStore"
    /\ server_ctx.kex_keystore.unknown_curve
    /\ Len(history) > 0
    /\ history[Len(history)] = UnsupportedCurveServerKeyExchange
    /\ client_ctx.kex_keystore.t = "EmptyKexKeystore"

\* the last call processed a ClientHello
ClientHelloProcessed ==
    /\ last'.op = "insert"
    /\ last'.who = "ClientHello"

\* C32: processing a ClientHello sets the premaster secret to a fresh 48-byte
\* placeholder, the 2-byte version of the ClientHello followed by 46 random bytes,
\* only when the session has no premaster secret; a premaster secret that exists
\* already is left as it is; the client random and the session id are updated in
\* both cases.
C32_ClientHelloPlaceholder ==
    [][ClientHelloProcessed =>
         /\ last'.err = ""
         /\ client_ctx.random'
                = Cat(PackN(InsertedPacket.gmt_unix_time, 4), InsertedPacket.random_bytes)
         /\ client_ctx.session_id' = InsertedPacket.session_id
         /\ premaster_secret = None =>
                /\ BLen(premaster_secret') = 48
                /\ Take(premaster_secret', 2) = PackN(InsertedPacket.version, 2)
                /\ Len(Drop(premaster_secret', 2)) = 1
                /\ Drop(premaster_secret', 2)[1].b.k = "urandom"
                /\ Drop(premaster_secret', 2)[1].lo = 1
                /\ Drop(premaster_secret', 2)[1].hi = 46
                /\ \A i \in 1..Len(history) :
                       history[i].kind = "ClientHello" =>
                           Drop(premaster_secret', 2)[1].b.id # <<0, i - 1>>
         /\ premaster_secret # None => premaster_secret' = premaster_secret
         /\ client_ctx' = [client_ctx EXCEPT !.handshake = client_ctx.handshake',
                                              !.session_id = client_ctx.session_id',
                                              !.random = client_ctx.random']
         /\ UNCHANGED <<client, server, server_ctx, requires_iv, sec_params, negotiated,
                        encrypted_premaster_secret, master_secret, prf>>]_vars

\* a second ClientHello, of TLS 1.0 and with a session id, in a session whose
\* placeholder carries the version of the first
C32_Witness ==
    /\ last.op = "insert"
    /\ last.who = "ClientHello"
    /\ history[Len(history)] = ResumingClientHello
    /\ client_ctx.session_id = Run(9, 32)
    /\ BLen(premaster_secret) = 48
    /\ Take(premaster_secret, 2) = PackN(TLS_1_2, 2)

\* C33: within one direction and one set of keys no two GCM encrypt operations
\* use the same nonce (salt || explicit counter), however the encrypt and decrypt
\* operations on the engine of that direction are interleaved.
C33_GcmNonceNeverReused ==
    [][\A d \in Directions :
         (GcmEngine(d) /\ last'.op = "encrypt_data" /\ last'.who = d /\ last'.err = "") =>
             [key |-> EngineOf(d).enc_cipher.key',
              nonce |-> SaltedNonce(d, Take(last'.out, GCM_EXPLICIT_IV_SIZE))] \notin gcm_nonces[d]]_vars

\* C34: if insert raises while it processes a record, the session is left as it
\* was before the call: the record is not in the history, and the negotiated
\* parameters, the randoms, the session ids, the key stores and the secrets are
\* unchanged.
C34_FailedInsertChangesNothing ==
    [][(last'.op = "insert" /\ last'.err # "") =>
          /\ history' = history
          /\ negotiated' = negotiated
          /\ client_ctx' = client_ctx
          /\ server_ctx' = server_ctx
          /\ UNCHANGED <<requires_iv, sec_params, encrypted_premaster_secret, premaster_secret,
                         master_secret, prf>>]_vars

\* how the engine of direction d of session s would encrypt a one-byte record: the
\* error it raises, the IV its cipher starts from and the length of what it emits
IvDiscipline(s, d) ==
    Bind(encrypt_data(CtxOf(s, d), ViewOf(s), Run(65, 1), <<9>>), LAMBDA r :
        [err |-> r.err,
         iv |-> IF r.err = "" THEN IvOfRecord(r.v) ELSE <<>>,
         framed |-> BLen(r.v)])

\* C35: the IV discipline of a CBC engine is fixed when the engine is created: a
\* ServerHello processed afterwards that negotiates a different version does not
\* change how the engines already installed encrypt or decrypt, and every encrypt
\* or decrypt on an installed CBC engine finds an initialised cipher.
C35_IvDisciplineFixed ==
    [][\A d \in Directions :
         (EngineOf(d) # NoneRec /\ EngineOf(d).t = "CBCCryptoContext") =>
             /\ (last'.op = "insert" /\ last'.who = "ServerHello" /\ EngineOf(d)' = EngineOf(d)) =>
                    IvDiscipline(Session', d) = IvDiscipline(Session, d)
             /\ (last'.op \in {"encrypt_data", "decrypt"} /\ last'.who = d) =>
                    last'.err # "AttributeError"]_vars

\* C36: a ServerKeyExchange processed while the key exchange store of the server
\* is set leaves that store unchanged, and a ClientKeyExchange with DH or ECDH
\* parameters leaves a key exchange store of the client that is set unchanged;
\* only the accessors get_client_dh_pubkey and get_client_ecdh_pubkey overwrite a
\* client store that is set.
C36_SetStoresKept ==
    [][/\ (last'.op = "insert" /\ server_ctx.kex_keystore.t # "EmptyKexKeystore") =>
             server_ctx.kex_keystore' = server_ctx.kex_keystore
       /\ (last'.op = "insert" /\ client_ctx.kex_keystore.t # "EmptyKexKeystore") =>
             client_ctx.kex_keystore' = client_ctx.kex_keystore
       /\ (/\ last'.op \in {"get_client_dh_pubkey", "get_client_ecdh_pubkey"}
           /\ last'.err = ""
           /\ client_ctx.kex_keystore.t # "EmptyKexKeystore") =>
             /\ client_ctx.kex_keystore'.t
                    = IF last'.op = "get_client_dh_pubkey" THEN "DHKeyStore" ELSE "ECDHKeyStore"
             /\ last'.out = IF last'.op = "get_client_dh_pubkey"
                             THEN int_to_str(client_ctx.kex_keystore'.public)
                             ELSE point_to_ansi_str(client_ctx.kex_keystore'.public)]_vars

\* get_client_ecdh_pubkey has replaced the store that a ClientKeyExchange with ECDH
\* parameters had set
C36_Witness ==
    /\ last.op = "get_client_ecdh_pubkey"
    /\ last.err = ""
    /\ Len(history) = 2
    /\ history[1] \in ServerKeyExchanges
    /\ history[2] = ClientKeyExchange("ECDH", Lit(<<4, 3, 4>>))
    /\ client_ctx.kex_keystore.t = "ECDHKeyStore"
    /\ point_to_ansi_str(client_ctx.kex_keystore.public) = last.out
    /\ last.out # Lit(<<4, 3, 4>>)

\* the last call was a get_client_signed_handshake_hash that returned a signature
SignedHandshakeHash ==
    /\ last'.op = "get_client_signed_handshake_hash"
    /\ last'.err = ""

\* C37: the handshake hash is repeatable: two successive calls of
\* get_client_signed_handshake_hash (default hash argument) with no message
\* inserted in between sign a digest over exactly the same bytes, the handshake
\* messages of the history, each once, in the order of the history.
C37_HandshakeHashRepeatable ==
    [][SignedHandshakeHash =>
          /\ last'.out = pkcs1_sign(client_ctx.asym_keystore.private, history)
          /\ (last.op = "get_client_signed_handshake_hash" /\ last.err = "") =>
                 last'.out = last.out]_vars

\* C38: set_mode gives the session the role asked for and keeps exactly one of the
\* client and server flags true: after set_mode(client=c) the client flag is c
\* and the server flag is not c, and after set_mode(server=s) the server flag is
\* s and the client flag is not s, for both boolean values of c and of s.
C38_SetModeGivesRole ==
    [][last'.op = "set_mode" =>
          /\ client' = ~server'
          /\ (last'.out[1] # "None" /\ last'.out[2] = "None") =>
                 /\ client' = Truth(last'.out[1])
                 /\ server' = ~Truth(last'.out[1])
          /\ (last'.out[1] = "None" /\ last'.out[2] # "None") =>
                 /\ server' = Truth(last'.out[2])
                 /\ client' = ~Truth(last'.out[2])]_vars

\* a counter of the session, a number in base 256, fits 8 bytes
FitsQ(counter) == Len(counter) <= 8

\* C39: the explicit nonce counter and the sequence number of a direction stay
\* within 0..2^64-1 in every reachable state, so that every encrypt can encode
\* them in 8 bytes; in particular a GCM encrypt that follows the decrypt of a
\* record carrying the largest explicit nonce does not leave the counter outside
\* that range.
C39_CountersFit64Bits ==
    \A d \in Directions :
        /\ FitsQ(CtxOf(Session, d).nonce)
        /\ FitsQ(CtxOf(Session, d).sequence)

\* the registered suites by the cipher their name spells
NamedAes128 == {47, 50, 51, 49161, 49171, 49187, 49191, 49195}
NamedAes256 == {53, 56, 57, 49162, 49172, 49188, 49192, 49196, 49200}
Named3DesEde == {10, 19, 22, 49160, 49170}
NamedDes == {9, 18, 21, 98, 99}
NamedRc4128 == {4, 5, 102, 49159, 49169}

\* the cipher key length the name of a suite implies
ImpliedKeyLen(suite) ==
    IF suite \in NamedAes128 THEN 16
    ELSE IF suite \in NamedAes256 THEN 32
    ELSE IF suite \in Named3DesEde THEN 24
    ELSE IF suite \in NamedDes THEN 8
    ELSE 16

\* the cipher type a mode constant is taken from
ModeOwner(mode) ==
    IF mode \in {"AES.MODE_CBC", "AES.MODE_GCM"} THEN "AES"
    ELSE IF mode = "DES3.MODE_CBC" THEN "DES3"
    ELSE IF mode = "DES.MODE_CBC" THEN "DES"
    ELSE IF mode = "ARC2.MODE_CBC" THEN "ARC2"
    ELSE "None"

\* C40: the descriptor of every registered suite, and so of the suite a session
\* negotiated, carries the cipher key length its name implies (16 bytes for
\* AES_128, 32 for AES_256, 24 for 3DES_EDE, 8 for DES, 16 for RC4_128) and a mode
\* constant taken from the cipher type of the descriptor.
C40_DescriptorMatchesName ==
    (sec_params.cipher_suite \in
         NamedAes128 \cup NamedAes256 \cup Named3DesEde \cup NamedDes \cup NamedRc4128) =>
        /\ Descriptor.cipher.key_len = ImpliedKeyLen(sec_params.cipher_suite)
        /\ Descriptor.cipher.mode # "None" =>
               ModeOwner(Descriptor.cipher.mode) = Descriptor.cipher.type
====
